---- MODULE Spec2Model ----
(***************************************************************************)
(* Decision pipeline of the Mag7 7DTE system: the partial profit-taking    *)
(* ladder, the position sizers, the dynamic exit planner and the ensemble  *)
(* aggregators, as state machines over the records the services read and   *)
(* write.                                                                  *)
(*                                                                         *)
(* Units.  Percentages and confidences are integers in hundredths          *)
(* (0.25 -> 25).  Money is in whole dollars; an option price is in cents,  *)
(* so that option_price * 100 shares is a whole number of dollars.         *)
(* Python floats are modelled by exact rational arithmetic on these        *)
(* integers; int() is truncation and math.ceil the ceiling.                *)
(***************************************************************************)
EXTENDS Integers, Sequences, FiniteSets, TLC

VARIABLES
    profit_taking,   \* rows of PartialProfitTaking, in commit order
    ladder_calls,    \* the results returned by implement_partial_profit_taking, in order
    ladder_pc,       \* per concurrent caller: position inside implement_partial_profit_taking
    ladder_local,    \* per concurrent caller: its arguments and the history it has read
    account,         \* User.risk_profile and Portfolio.total_value of the sized account
    positions,       \* current_value of the ACTIVE positions in the sized instrument
    fundamental_data,\* latest FundamentalData row of the instrument, or NoFundamentalData
    avg_correlation, \* mean |correlation| with the active positions, or NoCorrelation
    sizing,          \* the dict the last calculate_position_size call returned
    sizer_pc,        \* per concurrent sizing request: where it stands
    sizer_local,     \* per concurrent sizing request: arguments, allocation read, grant
    position,        \* the Position row the exit planner evaluates
    exit_eval,       \* the dict the last calculate_dynamic_take_profit call returned
    prev_eval,       \* the dict the call before it returned
    highest_stop,    \* the highest adjusted_stop_loss any call has returned so far
    instrument,      \* Instrument.last_price and the ATM options the chain offers
    strategy_outputs,\* per registered strategy: the signals its generate_signals returns
    signals,         \* Signal rows saved by the aggregators, in order
    signal_factors,  \* SignalFactor rows saved by the aggregators, in order
    ensemble_returned,\* the aggregator last called and the list it returned
    cycle,           \* where a step-wise generate_signals call of an aggregator stands
    evaluations,     \* per registered strategy: how its evaluation in that call ended
    symbols,         \* per symbol of MAG7_SYMBOLS: what the instrument and price queries will find
    generator,       \* the symbol and the step TechnicalSignalGenerator.generate_signals is at
    outcomes,        \* per symbol: how its lookup and each generate_*_signals call ended
    technical_signals,\* Signal rows the technical generator has saved, in order
    db_signals,      \* Signal rows behind the signals API, by id: status, confidence_score, deleted
    last_update,     \* the signal, the status before and the status after the last update_signal
    api_calls,       \* number of create, update and delete requests served
    checked_position, \* the Position row check_stop_loss_take_profit reads
    position_before, \* that row as it was before the first check
    check_results,   \* the position_id and the returned dict of every check, in order
    ladder_days_to_expiration, \* days from today to Position.expiration_date of the laddered position
    adjusted_thresholds, \* the adjusted_thresholds the last adjust_take_profit_for_dte returned
    levels_request,  \* entry_price and risk_level the exit levels are asked for
    levels,          \* the dict the last calculate_stop_loss_take_profit returned
    prev_levels,     \* the dict the call before it returned
    earnings_input,  \* what EarningsStrategy.generate_signals reads for the instrument
    earnings_signals, \* the candidates the last EarningsStrategy.generate_signals returned
    macd_chain,      \* whether the option chain has an ATM call and an ATM put
    macd_ticks,      \* df['macd'] - df['signal'] of the price rows so far, oldest first
    macd_returned,   \* the list MACDStrategy.generate_signals returned at each tick
    closed_signals,  \* profit_loss of the Signal rows whose profit_loss is set
    summary,         \* the dict the last get_signals_performance_summary returned
    recent_signals,  \* Signal rows of one instrument generated within the last day
    generator_cycles \* runs of EnsembleSignalGenerator.generate_signals so far

ladder_vars == <<profit_taking, ladder_calls, ladder_pc, ladder_local>>
sizer_vars == <<account, positions, fundamental_data, avg_correlation, sizing,
                sizer_pc, sizer_local>>
exit_vars == <<position, exit_eval, prev_eval, highest_stop>>
ensemble_vars == <<instrument, strategy_outputs, signals, signal_factors,
                   ensemble_returned>>

cycle_vars == <<cycle, evaluations>>

generator_vars == <<symbols, generator, outcomes, technical_signals>>

api_vars == <<db_signals, last_update, api_calls>>

check_vars == <<checked_position, position_before, check_results>>

dte_vars == <<ladder_days_to_expiration, adjusted_thresholds>>

levels_vars == <<levels_request, levels, prev_levels>>

earnings_vars == <<earnings_input, earnings_signals>>

macd_vars == <<macd_chain, macd_ticks, macd_returned>>

summary_vars == <<closed_signals, summary>>

recent_vars == <<recent_signals, generator_cycles>>

vars == <<ladder_vars, sizer_vars, exit_vars, ensemble_vars, cycle_vars, generator_vars, api_vars, check_vars, dte_vars, levels_vars, earnings_vars, macd_vars, summary_vars, recent_vars>>

\* What an action of one component leaves alone in the others.
ladder_others == <<sizer_vars, exit_vars, ensemble_vars, cycle_vars, generator_vars, api_vars, check_vars, dte_vars, levels_vars, earnings_vars, macd_vars, summary_vars, recent_vars>>
sizer_others == <<ladder_vars, exit_vars, ensemble_vars, cycle_vars, generator_vars, api_vars, check_vars, dte_vars, levels_vars, earnings_vars, macd_vars, summary_vars, recent_vars>>
exit_others == <<ladder_vars, sizer_vars, ensemble_vars, cycle_vars, generator_vars, api_vars, check_vars, dte_vars, levels_vars, earnings_vars, macd_vars, summary_vars, recent_vars>>
ensemble_others == <<ladder_vars, sizer_vars, exit_vars, cycle_vars, generator_vars, api_vars, check_vars, dte_vars, levels_vars, earnings_vars, macd_vars, summary_vars, recent_vars>>
cycle_others == <<ladder_vars, sizer_vars, exit_vars, generator_vars, api_vars, check_vars, dte_vars, levels_vars, earnings_vars, macd_vars, summary_vars, recent_vars>>
generator_others == <<ladder_vars, sizer_vars, exit_vars, ensemble_vars, cycle_vars, api_vars, check_vars, dte_vars, levels_vars, earnings_vars, macd_vars, summary_vars, recent_vars>>
api_others == <<ladder_vars, sizer_vars, exit_vars, ensemble_vars, cycle_vars, generator_vars, check_vars, dte_vars, levels_vars, earnings_vars, macd_vars, summary_vars, recent_vars>>
check_others == <<ladder_vars, sizer_vars, exit_vars, ensemble_vars, cycle_vars, generator_vars, api_vars, dte_vars, levels_vars, earnings_vars, macd_vars, summary_vars, recent_vars>>
dte_others == <<sizer_vars, exit_vars, ensemble_vars, cycle_vars, generator_vars, api_vars, check_vars, levels_vars, earnings_vars, macd_vars, summary_vars, recent_vars>>
levels_others == <<ladder_vars, sizer_vars, exit_vars, ensemble_vars, cycle_vars, generator_vars, api_vars, check_vars, dte_vars, earnings_vars, macd_vars, summary_vars, recent_vars>>
earnings_others == <<ladder_vars, sizer_vars, exit_vars, ensemble_vars, cycle_vars, generator_vars, api_vars, check_vars, dte_vars, levels_vars, macd_vars, summary_vars, recent_vars>>
macd_others == <<ladder_vars, sizer_vars, exit_vars, ensemble_vars, cycle_vars, generator_vars, api_vars, check_vars, dte_vars, levels_vars, earnings_vars, summary_vars, recent_vars>>
summary_others == <<ladder_vars, sizer_vars, exit_vars, ensemble_vars, cycle_vars, generator_vars, api_vars, check_vars, dte_vars, levels_vars, earnings_vars, macd_vars, recent_vars>>
recent_others == <<ladder_vars, sizer_vars, exit_vars, ensemble_vars, cycle_vars, generator_vars, api_vars, check_vars, dte_vars, levels_vars, earnings_vars, macd_vars, summary_vars>>

Max(a, b) == IF a >= b THEN a ELSE b
Min(a, b) == IF a <= b THEN a ELSE b

RECURSIVE SumSeq(_)
SumSeq(s) == IF s = <<>> THEN 0 ELSE Head(s) + SumSeq(Tail(s))

(***************************************************************************)
(* Partial profit-taking ladder                                            *)
(***************************************************************************)

\* Bounds of the ladder model.
MaxLadderCalls == 5

\* The position ids a caller may pass; only those in PositionIds have a row.
PositionIds == {1}
RequestedPositionIds == {1, 2}

\* quantity of the position (contracts), used for contracts_to_close.
PositionQuantity == 10

\* Profit levels a caller may report (hundredths): below the ladder, on and
\* between its thresholds, and above it.
ProfitLevels == {19, 22, 37, 50}

thresholds ==
    << [profit_pct |-> 20, take_pct |-> 25],
       [profit_pct |-> 35, take_pct |-> 25],
       [profit_pct |-> 50, take_pct |-> 25] >>

\* Position.expiration_date with no position loaded.
NoExpiration == -1

\* Days to expiration of the laddered position: one per branch of the
\* adjustment and one above them.
LadderDaysToExpiration == {1, 2, 3, 5, 7}

\* The factor adjust_take_profit_for_dte applies to profit_pct, in hundredths.
DteFactor(dte) ==
    IF dte <= 1 THEN 40
    ELSE IF dte <= 2 THEN 60
    ELSE IF dte <= 3 THEN 75
    ELSE IF dte <= 5 THEN 90
    ELSE 100

\* adjusted_thresholds of adjust_take_profit_for_dte: profit_pct in
\* ten-thousandths (hundredths times the factor), take_pct in hundredths.
AdjustedThresholds(dte) ==
    [i \in 1..Len(thresholds) |->
        [profit_pct |-> thresholds[i].profit_pct * DteFactor(dte),
         take_pct |-> thresholds[i].take_pct]]

\* PartialProfitTaking rows of one position.
HistoryOf(rows, position_id) ==
    SelectSeq(rows, LAMBDA e : e.position_id = position_id)

PercentagesOf(history) ==
    [i \in 1..Len(history) |-> history[i].percentage_closed]

TotalPctTakenLatestOnly(history) ==
    IF history = <<>> THEN 0 ELSE history[Len(history)].percentage_closed

\* total_pct_taken = sum(ppt.percentage_closed for ppt in profit_taking_history)
TotalPctTaken(history) == SumSeq(PercentagesOf(history))

TargetTotalPctStrict(i) ==
    SumSeq([j \in 1..Len(thresholds) |->
              IF thresholds[j].profit_pct < thresholds[i].profit_pct
              THEN thresholds[j].take_pct ELSE 0])

\* sum(t["take_pct"] for t in thresholds if t["profit_pct"] <= threshold["profit_pct"])
TargetTotalPct(i) ==
    SumSeq([j \in 1..Len(thresholds) |->
              IF thresholds[j].profit_pct <= thresholds[i].profit_pct
              THEN thresholds[j].take_pct ELSE 0])

\* pct_to_take_now = min(target_total_pct - total_pct_taken, 1.0 - total_pct_taken)
PctToTakeNow(i, total_pct_taken) ==
    Min(TargetTotalPct(i) - total_pct_taken, 100 - total_pct_taken)

\* The threshold the for-loop returns on: hit, not yet taken, something to take.
ThresholdFires(i, current_profit_pct, total_pct_taken) ==
    /\ current_profit_pct >= thresholds[i].profit_pct
    /\ total_pct_taken < TargetTotalPct(i)
    /\ PctToTakeNow(i, total_pct_taken) > 0

HighestFiring(current_profit_pct, total_pct_taken) ==
    LET firing == {i \in 1..Len(thresholds) :
                     ThresholdFires(i, current_profit_pct, total_pct_taken)}
    IN  IF firing = {} THEN 0
        ELSE CHOOSE i \in firing : \A j \in firing : i >= j

\* Index of the first threshold of the loop that returns, 0 when the loop falls through.
FirstFiring(current_profit_pct, total_pct_taken) ==
    LET firing == {i \in 1..Len(thresholds) :
                     ThresholdFires(i, current_profit_pct, total_pct_taken)}
    IN  IF firing = {} THEN 0
        ELSE CHOOSE i \in firing : \A j \in firing : i <= j

\* The dict implement_partial_profit_taking returns, given the history it read.
PartialProfitResult(position_id, current_profit_pct, history) ==
    LET total == TotalPctTaken(history)
        i     == FirstFiring(current_profit_pct, total)
    IN  IF position_id \notin PositionIds
        THEN [action |-> "error", position_id |-> position_id,
              percentage_to_close |-> 0, contracts_to_close |-> 0,
              profit_percentage |-> current_profit_pct,
              threshold_triggered |-> 0, total_percentage_closed |-> 0]
        ELSE IF i = 0
        THEN [action |-> "hold", position_id |-> position_id,
              percentage_to_close |-> 0, contracts_to_close |-> 0,
              profit_percentage |-> current_profit_pct,
              threshold_triggered |-> 0, total_percentage_closed |-> total]
        ELSE [action |-> "partial_close", position_id |-> position_id,
              percentage_to_close |-> PctToTakeNow(i, total),
              contracts_to_close |-> (PositionQuantity * PctToTakeNow(i, total)) \div 100,
              profit_percentage |-> current_profit_pct,
              threshold_triggered |-> thresholds[i].profit_pct,
              total_percentage_closed |-> total + PctToTakeNow(i, total)]

\* The rows after the call: db.add(new_profit_taking); db.commit() on partial_close.
CommitResult(rows, result) ==
    IF result.action = "partial_close"
    THEN Append(rows, [position_id |-> result.position_id,
                       percentage_closed |-> result.percentage_to_close,
                       profit_percentage |-> result.profit_percentage])
    ELSE rows

(***************************************************************************)
(* Position sizers                                                         *)
(***************************************************************************)

\* Users and instruments that have rows; a request may name others.
UserIds == {1}
RequestedUserIds == {1, 2}
InstrumentIds == {1}
RequestedInstrumentIds == {1, 2}

\* Portfolio.total_value (dollars).  Multiples of $10,000, so that the risk
\* per trade below is a whole number of dollars.
PortfolioValues == {100000, 200000}
\* RiskProfile.max_portfolio_risk and max_stock_allocation (percent).
MaxPortfolioRisks == {2, 50}
MaxStockAllocations == {20, 50, 100}
\* Sum of current_value of the ACTIVE positions already held in the instrument.
CurrentAllocations == {0, 10000, 18000, 40000, 80000}
\* signal_confidence (hundredths) and option_price (cents); the request schema
\* admits confidence in [0, 1] and option_price > 0.
SignalConfidences == {50, 70, 85, 95}
OptionPrices == {250, 1000, 15000}

NoFundamentalData == [present |-> FALSE]
FundamentalRows ==
    { NoFundamentalData,
      [present |-> TRUE, earnings_surprise_pct |-> 12, analyst_rating_buy |-> 80,
       analyst_rating_sell |-> 10, pe_ratio |-> 10, sector_avg_pe |-> 20],
      [present |-> TRUE, earnings_surprise_pct |-> 0, analyst_rating_buy |-> 50,
       analyst_rating_sell |-> 20, pe_ratio |-> 20, sector_avg_pe |-> 20],
      [present |-> TRUE, earnings_surprise_pct |-> -12, analyst_rating_buy |-> 20,
       analyst_rating_sell |-> 60, pe_ratio |-> 40, sector_avg_pe |-> 20],
      [present |-> TRUE, earnings_surprise_pct |-> -7, analyst_rating_buy |-> 75,
       analyst_rating_sell |-> 5, pe_ratio |-> 31, sector_avg_pe |-> 20] }

\* avg_correlation (hundredths) over the active positions of the portfolio that
\* the correlation matrix knows; NoCorrelation when there is none or no matrix.
NoCorrelation == -1
AvgCorrelations == {20, 50, 70, 90}

Ceil(a, b) == (a + b - 1) \div b

\* contract_value = option_price * 100, in dollars for a price in cents.
ContractValue(option_price) == (option_price * 100) \div 100

\* adjusted_risk = portfolio_value * (max_portfolio_risk / 100) * (0.5 + signal_confidence)
AdjustedRisk(acct, signal_confidence) ==
    (acct.portfolio_value * acct.max_portfolio_risk * (50 + signal_confidence)) \div 10000

\* min_position_size = max(33000.0, portfolio_value * 0.33)
MinPositionSize(acct) == Max(33000, (acct.portfolio_value * 33) \div 100)

MaxScalingStrictTiers(signal_confidence) ==
    IF signal_confidence > 90 THEN 200
    ELSE IF signal_confidence > 80 THEN 150
    ELSE IF signal_confidence > 70 THEN 125
    ELSE 100

\* max_scaling by confidence tier, in hundredths.
MaxScaling(signal_confidence) ==
    IF signal_confidence >= 90 THEN 200
    ELSE IF signal_confidence >= 80 THEN 150
    ELSE IF signal_confidence >= 70 THEN 125
    ELSE 100

\* fundamental_score in tenths, clamped to [0, 10].
FundamentalScore(fd) ==
    LET earnings == IF fd.earnings_surprise_pct > 10 THEN 2
                    ELSE IF fd.earnings_surprise_pct > 5 THEN 1
                    ELSE IF fd.earnings_surprise_pct < -10 THEN -2
                    ELSE IF fd.earnings_surprise_pct < -5 THEN -1
                    ELSE 0
        analyst  == IF fd.analyst_rating_buy > 70 THEN 1
                    ELSE IF fd.analyst_rating_sell > 50 THEN -1
                    ELSE 0
        value    == IF fd.pe_ratio * 10 < fd.sector_avg_pe * 7 THEN 1
                    ELSE IF fd.pe_ratio * 10 > fd.sector_avg_pe * 15 THEN -1
                    ELSE 0
    IN  Max(0, Min(10, 5 + earnings + analyst + value))

\* calculate_fundamental_adjustment, in two-hundredths (1.0 -> 200):
\* 1.0 + ((0.5 + fundamental_score) + signal_confidence) / 2.
FundamentalAdjustment(fd, signal_confidence) ==
    IF ~fd.present THEN 200
    ELSE 200 + (50 + 10 * FundamentalScore(fd)) + signal_confidence

\* calculate_correlation_adjustment, in hundredths.
CorrelationAdjustment(avg) ==
    IF avg = NoCorrelation THEN 100
    ELSE IF avg > 80 THEN 50
    ELSE IF avg > 60 THEN 75
    ELSE IF avg < 30 THEN 120
    ELSE 100

SizingError(message) ==
    [error |-> message, contracts |-> 0, min_contracts |-> 0, max_contracts |-> 0,
     position_value |-> 0, min_position_size |-> 0, max_capital |-> 0,
     contract_value |-> 0, current_allocation |-> 0, available_allocation |-> 0,
     signal_confidence |-> 0, max_scaling |-> 0,
     fundamental_adjustment |-> 0, correlation_adjustment |-> 0]

\* Lines 157-165: the clamp to the available allocation, then the re-floor.
ClampedContracts(contracts, contract_value, available_allocation, min_position_size) ==
    LET clamped == IF contracts * contract_value > available_allocation
                   THEN available_allocation \div contract_value
                   ELSE contracts
    IN  IF clamped * contract_value < min_position_size
           /\ available_allocation >= min_position_size
        THEN Ceil(min_position_size, contract_value)
        ELSE clamped

FinalContractsUnfloored(min_contracts, adjusted_contracts) == adjusted_contracts

\* final_contracts = max(min_contracts, adjusted_contracts)
FinalContracts(min_contracts, adjusted_contracts) ==
    Max(min_contracts, adjusted_contracts)

\* calculate_position_size of risk_management_service_updated (the floor policy).
FloorPolicySize(user_id, instrument_id, signal_confidence, option_price, acct, current_allocation, fd, avg) ==
    LET contract_value    == ContractValue(option_price)
        max_capital       == AdjustedRisk(acct, signal_confidence)
        min_position_size == MinPositionSize(acct)
        min_contracts     == Ceil(min_position_size, contract_value)
        max_scaling       == MaxScaling(signal_confidence)
        scaled_contracts  == Min((min_contracts * max_scaling) \div 100,
                                 max_capital \div contract_value)
        contracts         == Max(min_contracts, scaled_contracts)
        max_stock_capital == (acct.portfolio_value * acct.max_stock_allocation) \div 100
        available         == max_stock_capital - current_allocation
        clamped           == ClampedContracts(contracts, contract_value, available,
                                              min_position_size)
        fundamental       == FundamentalAdjustment(fd, signal_confidence)
        correlation       == CorrelationAdjustment(avg)
        adjusted          == (clamped * fundamental * correlation) \div 20000
        final_contracts   == FinalContracts(min_contracts, adjusted)
    IN  IF user_id \notin UserIds
        THEN SizingError("User not found or has no risk profile")
        ELSE IF instrument_id \notin InstrumentIds
        THEN SizingError("Instrument not found")
        ELSE IF available <= 0
        THEN SizingError("Maximum allocation reached")
        ELSE [error |-> "", contracts |-> final_contracts,
              min_contracts |-> min_contracts, max_contracts |-> scaled_contracts,
              position_value |-> final_contracts * contract_value,
              min_position_size |-> min_position_size, max_capital |-> max_capital,
              contract_value |-> contract_value,
              current_allocation |-> current_allocation,
              available_allocation |-> available,
              signal_confidence |-> signal_confidence, max_scaling |-> max_scaling,
              fundamental_adjustment |-> fundamental,
              correlation_adjustment |-> correlation]

\* calculate_position_size of risk_management_service (the plain risk-based policy).
PlainPolicySize(user_id, instrument_id, signal_confidence, option_price, acct, current_allocation) ==
    LET contract_value    == ContractValue(option_price)
        adjusted_risk     == AdjustedRisk(acct, signal_confidence)
        contracts         == IF adjusted_risk \div contract_value < 1
                                /\ adjusted_risk >= contract_value
                             THEN 1
                             ELSE adjusted_risk \div contract_value
        max_stock_capital == (acct.portfolio_value * acct.max_stock_allocation) \div 100
        available         == max_stock_capital - current_allocation
        max_capital       == IF adjusted_risk > available THEN available ELSE adjusted_risk
        final_contracts   == IF adjusted_risk > available
                             THEN available \div contract_value
                             ELSE contracts
    IN  IF user_id \notin UserIds
        THEN SizingError("User not found or has no risk profile")
        ELSE IF instrument_id \notin InstrumentIds
        THEN SizingError("Instrument not found")
        ELSE IF available <= 0
        THEN SizingError("Maximum allocation reached")
        ELSE [SizingError("") EXCEPT
                 !.contracts = final_contracts,
                 !.position_value = final_contracts * contract_value,
                 !.max_capital = max_capital,
                 !.contract_value = contract_value,
                 !.current_allocation = current_allocation,
                 !.available_allocation = available,
                 !.signal_confidence = signal_confidence]

NoSizing == SizingError("no call yet")

(***************************************************************************)
(* Exit planner                                                            *)
(***************************************************************************)

\* Position.entry_price.  Multiples of 400, so that 80% of the entry price and
\* a quarter and a half of every gain below are whole numbers.
EntryPrices == {400, 800}
\* Position.stop_loss_price as a percentage of the entry price; 0 is "not set".
StopLossLevels == {0, 85, 90, 110}
\* Position.current_price as a percentage of the entry price: a loss, flat,
\* on and just above the 15% and 30% tiers, and beyond.
PriceLevels == {90, 100, 115, 116, 130, 131, 140, 160}

\* current_profit_pct = (current_price - entry_price) / entry_price, in hundredths.
ProfitPct(current_price, entry_price) ==
    ((current_price - entry_price) * 100) \div entry_price

\* initial_stop_loss = position.stop_loss_price, or entry_price * 0.8 if not set.
InitialStopLoss(pos) ==
    IF pos.stop_loss_price = 0 THEN (pos.entry_price * 8) \div 10
    ELSE pos.stop_loss_price

RiskRewardRatioInclusiveTiers(current_profit_pct) ==
    IF current_profit_pct <= 15 THEN 15
    ELSE IF current_profit_pct <= 30 THEN 20
    ELSE 30

\* risk_reward_ratio by profit tier, in tenths.
RiskRewardRatio(current_profit_pct) ==
    IF current_profit_pct < 15 THEN 15
    ELSE IF current_profit_pct < 30 THEN 20
    ELSE 30

Abs(x) == IF x < 0 THEN -x ELSE x

TrailingStopTiersSwapped(pos, current_profit_pct) ==
    IF current_profit_pct > 30
    THEN pos.entry_price + (pos.current_price - pos.entry_price) \div 4
    ELSE IF current_profit_pct > 15
    THEN pos.entry_price + (pos.current_price - pos.entry_price) \div 2
    ELSE InitialStopLoss(pos)

\* trailing_stop: half of the gain above 30% profit, a quarter above 15%.
TrailingStop(pos, current_profit_pct) ==
    IF current_profit_pct > 30
    THEN pos.entry_price + (pos.current_price - pos.entry_price) \div 2
    ELSE IF current_profit_pct > 15
    THEN pos.entry_price + (pos.current_price - pos.entry_price) \div 4
    ELSE InitialStopLoss(pos)

\* The dict calculate_dynamic_take_profit returns.
DynamicTakeProfit(pos, current_profit_pct) ==
    LET initial_stop_loss == InitialStopLoss(pos)
        initial_risk      == Abs(pos.entry_price - initial_stop_loss)
        risk_reward_ratio == RiskRewardRatio(current_profit_pct)
    IN  [evaluated |-> TRUE,
         entry_price |-> pos.entry_price,
         current_price |-> pos.current_price,
         current_profit_pct |-> current_profit_pct,
         initial_stop_loss |-> initial_stop_loss,
         adjusted_stop_loss |-> Max(initial_stop_loss,
                                    TrailingStop(pos, current_profit_pct)),
         take_profit_price |-> pos.entry_price
                                 + (initial_risk * risk_reward_ratio) \div 10,
         risk_reward_ratio |-> risk_reward_ratio,
         initial_risk |-> initial_risk]

NoEval ==
    [evaluated |-> FALSE, entry_price |-> 0, current_price |-> 0,
     current_profit_pct |-> 0, initial_stop_loss |-> 0, adjusted_stop_loss |-> 0,
     take_profit_price |-> 0, risk_reward_ratio |-> 0, initial_risk |-> 0]

(***************************************************************************)
(* Initial exit levels                                                     *)
(***************************************************************************)

\* entry_price in cents; multiples of 700 keep every level a whole number.
LevelEntryPrices == {700, 1400}
\* risk_level as passed by the caller; "extreme" is not a key of risk_levels.
RiskLevelNames == {"low", "normal", "high", "extreme"}
\* days_to_expiration: expiry day, inside the 7 DTE scale, on it and past it.
LevelDaysToExpiration == 0..8

\* risk_levels.get(risk_level, 0.15), in hundredths.
RiskPct(risk_level) ==
    IF risk_level = "low" THEN 10
    ELSE IF risk_level = "high" THEN 20
    ELSE 15

NoLevels ==
    [service |-> "none", days_to_expiration |-> 0, entry_price |-> 0,
     stop_loss_price |-> 0, take_profit_price |-> 0, risk_pct |-> 0]

StopLossTakeProfitUncapped(entry_price, days_to_expiration, risk_level) ==
    LET stop_loss_price == entry_price
                             - (entry_price * RiskPct(risk_level) * days_to_expiration) \div 700
    IN  [service |-> "updated", days_to_expiration |-> days_to_expiration,
         entry_price |-> entry_price, stop_loss_price |-> stop_loss_price,
         take_profit_price |-> entry_price + (entry_price - stop_loss_price) * 2,
         risk_pct |-> RiskPct(risk_level)]

\* The updated service's calculate_stop_loss_take_profit: dte_factor =
\* min(1.0, days_to_expiration / 7.0), stop = entry * (1 - risk_pct * dte_factor),
\* take-profit = entry + (entry - stop) * 2.0.
StopLossTakeProfit(entry_price, days_to_expiration, risk_level) ==
    LET stop_loss_price == entry_price
                             - (entry_price * RiskPct(risk_level)
                                   * Min(7, days_to_expiration)) \div 700
    IN  [service |-> "updated", days_to_expiration |-> days_to_expiration,
         entry_price |-> entry_price, stop_loss_price |-> stop_loss_price,
         take_profit_price |-> entry_price + (entry_price - stop_loss_price) * 2,
         risk_pct |-> RiskPct(risk_level)]

(***************************************************************************)
(* Earnings strategy                                                       *)
(***************************************************************************)

\* EarningsStrategy(db) as the ensemble constructs it: the defaults.
days_before == 5
days_after == 2

\* What one evaluation reads: the days from today to earnings_schedule
\* ["next_date"], the surprise trend (hundredths, within [-1, 1]), the latest
\* reported surprise_percentage (percent; 0 also stands for a missing one) and
\* whether the chain has the ATM option of the direction.
EarningsInputs ==
    [days_until_earnings : -3..15, surprise_trend : {-30, 0, 30},
     surprise_percentage : {-15, 0, 15}, atm_option : BOOLEAN]

NoEarningsInput ==
    [days_until_earnings |-> 0, surprise_trend |-> 0, surprise_percentage |-> 0,
     atm_option |-> FALSE]

\* A candidate of the earnings strategy; confidence_score in thousandths.
EarningsCandidate(signal_type, basis, confidence_score) ==
    <<[signal_type |-> signal_type, signal_source |-> "fundamental",
       basis |-> basis, confidence_score |-> confidence_score]>>

\* The list EarningsStrategy.generate_signals returns for an instrument with
\* a last price and a scheduled earnings date.
EarningsSignals(in) ==
    IF 0 < in.days_until_earnings /\ in.days_until_earnings <= days_before
    THEN IF in.surprise_trend > 20
         THEN IF in.atm_option
              THEN EarningsCandidate("LONG_CALL", "trend", 600 + in.surprise_trend * 3)
              ELSE <<>>
         ELSE IF in.surprise_trend < -20
         THEN IF in.atm_option
              THEN EarningsCandidate("LONG_PUT", "trend", 600 + Abs(in.surprise_trend) * 3)
              ELSE <<>>
         ELSE <<>>
    ELSE IF -days_after <= in.days_until_earnings /\ in.days_until_earnings <= 0
    THEN IF in.surprise_percentage > 10
         THEN IF in.atm_option
              THEN EarningsCandidate("LONG_CALL", "surprise",
                                     700 + Min(in.surprise_percentage, 30) * 10)
              ELSE <<>>
         ELSE IF in.surprise_percentage < -10
         THEN IF in.atm_option
              THEN EarningsCandidate("LONG_PUT", "surprise",
                                     700 + Min(Abs(in.surprise_percentage), 30) * 10)
              ELSE <<>>
         ELSE <<>>
    ELSE <<>>

(***************************************************************************)
(* MACD crossover strategy                                                 *)
(***************************************************************************)

\* Price rows per run.
MaxTicks == 4
\* macd - signal at a row: below, equal, above (two sizes each side).
MacdDifferences == {-2, -1, 0, 1, 2}

MACDSignalsOnLevel(ticks, chain) ==
    IF Len(ticks) < 2 THEN <<>>
    ELSE IF ticks[Len(ticks)] > 0
    THEN IF chain.atm_call
         THEN <<[signal_type |-> "LONG_CALL", confidence_score |-> 70]>> ELSE <<>>
    ELSE IF ticks[Len(ticks)] < 0
    THEN IF chain.atm_put
         THEN <<[signal_type |-> "LONG_PUT", confidence_score |-> 70]>> ELSE <<>>
    ELSE <<>>

\* The list MACDStrategy.generate_signals returns on the rows so far
\* (confidence_score in hundredths).  With a single row iloc[-2] raises
\* IndexError, which the function catches, returning [].
MACDSignals(ticks, chain) ==
    IF Len(ticks) < 2 THEN <<>>
    ELSE IF ticks[Len(ticks) - 1] < 0 /\ ticks[Len(ticks)] > 0
    THEN IF chain.atm_call
         THEN <<[signal_type |-> "LONG_CALL", confidence_score |-> 70]>> ELSE <<>>
    ELSE IF ticks[Len(ticks) - 1] > 0 /\ ticks[Len(ticks)] < 0
    THEN IF chain.atm_put
         THEN <<[signal_type |-> "LONG_PUT", confidence_score |-> 70]>> ELSE <<>>
    ELSE <<>>

(***************************************************************************)
(* Signal performance summary                                              *)
(***************************************************************************)

\* Closed signals per run.
MaxClosedSignals == 4
\* Signal.profit_loss of a closed signal: a loss, break-even, a profit.
ProfitLosses == {-50, 0, 100}

\* a / b as Python evaluates the guarded quotients of the summary: the
\* fraction, or the else-value when the guard on the denominator fails.
GuardedQuotient(a, b, otherwise) ==
    IF b > 0 THEN [kind |-> "finite", num |-> a, den |-> b]
    ELSE [kind |-> otherwise, num |-> 0, den |-> 1]

NoSummary ==
    [evaluated |-> FALSE, total_signals |-> 0, profitable_signals |-> 0,
     win_rate |-> GuardedQuotient(0, 0, "zero"),
     profit_factor |-> GuardedQuotient(0, 0, "zero"),
     average_profit |-> GuardedQuotient(0, 0, "zero"),
     average_loss |-> GuardedQuotient(0, 0, "zero"), total_profit_loss |-> 0]

\* The dict get_signals_performance_summary returns for the closed signals.
PerformanceSummary(rows) ==
    LET Profit(pl)     == IF pl > 0 THEN pl ELSE 0
        Loss(pl)       == IF pl < 0 THEN -pl ELSE 0
        Profitable(pl) == IF pl > 0 THEN 1 ELSE 0
        total_signals      == Len(rows)
        profitable_signals == SumSeq([k \in 1..Len(rows) |-> Profitable(rows[k])])
        total_profit       == SumSeq([k \in 1..Len(rows) |-> Profit(rows[k])])
        total_loss         == SumSeq([k \in 1..Len(rows) |-> Loss(rows[k])])
    IN  [evaluated |-> TRUE, total_signals |-> total_signals,
         profitable_signals |-> profitable_signals,
         win_rate |-> GuardedQuotient(profitable_signals, total_signals, "zero"),
         profit_factor |-> GuardedQuotient(total_profit, total_loss, "inf"),
         average_profit |-> GuardedQuotient(total_profit, profitable_signals, "zero"),
         average_loss |-> GuardedQuotient(total_loss, total_signals - profitable_signals,
                                          "zero"),
         total_profit_loss |-> total_profit - total_loss]

(***************************************************************************)
(* Ensemble aggregators                                                    *)
(***************************************************************************)

\* Most strategies that emit a candidate in one cycle.
MaxCandidates == 4

\* self.strategies with self.strategy_weights (tenths), the signal_source each
\* strategy stamps on its signals, the first factor it saves with a signal, and
\* confidences (hundredths) its confidence formula produces.
Strategies ==
    << [name |-> "rsi",           weight |-> 7, source |-> "technical",   factor |-> "rsi",                     confidences |-> <<20, 80>>],
       [name |-> "macd",          weight |-> 8, source |-> "technical",   factor |-> "macd_crossover",          confidences |-> <<70>>],
       [name |-> "bollinger",     weight |-> 6, source |-> "technical",   factor |-> "percent_b",               confidences |-> <<65>>],
       [name |-> "momentum",      weight |-> 7, source |-> "momentum",    factor |-> "momentum",                confidences |-> <<90>>],
       [name |-> "earnings",      weight |-> 9, source |-> "fundamental", factor |-> "earnings_surprise_trend", confidences |-> <<65, 90>>],
       [name |-> "valuation",     weight |-> 8, source |-> "fundamental", factor |-> "pe_ratio",                confidences |-> <<75>>],
       [name |-> "analyst",       weight |-> 7, source |-> "fundamental", factor |-> "analyst_sentiment",       confidences |-> <<55>>],
       [name |-> "iv_percentile", weight |-> 8, source |-> "volatility",  factor |-> "iv_percentile",           confidences |-> <<60>>],
       [name |-> "iv_skew",       weight |-> 7, source |-> "volatility",  factor |-> "iv_skew",                 confidences |-> <<70>>],
       [name |-> "vol_surface",   weight |-> 6, source |-> "volatility",  factor |-> "term_slope",              confidences |-> <<60>>] >>

StrategyIndexes == 1..Len(Strategies)

\* self.source_weights.get(signal.signal_source, 0.5), in tenths.
SourceWeight(source) ==
    CASE source = "technical"   -> 7
      [] source = "fundamental" -> 9
      [] source = "volatility"  -> 8
      [] source = "momentum"    -> 7
      [] source = "ensemble"    -> 0
      [] OTHER                  -> 5

\* combined_weight = (strategy_weight + source_weight) / 2.0, in twentieths.
CombinedWeight(i, signal) == Strategies[i].weight + SourceWeight(signal.signal_source)

\* The Signal row a strategy saves before it returns the signal (save_signal).
StrategySignal(i, signal, id) ==
    [id |-> id, signal_type |-> signal.signal_type, signal_source |-> signal.signal_source,
     status |-> "pending", confidence_score |-> [num |-> signal.confidence_score, den |-> 1],
     indicator |-> Strategies[i].name, strategies |-> <<>>]

\* The SignalFactor rows a strategy saves with its signal, the first one standing
\* for all of them.
StrategyFactor(i, signal, id) ==
    [signal_id |-> id, factor_name |-> Strategies[i].factor,
     factor_value |-> signal.confidence_score, factor_weight |-> [num |-> 7, den |-> 10]]

\* The rows the strategies from registry position i on save when they are
\* evaluated in registry order, the first new row taking first_id.
RECURSIVE StrategyRows(_, _, _)
StrategyRows(outputs, first_id, i) ==
    IF i > Len(Strategies) THEN <<>>
    ELSE [k \in 1..Len(outputs[i]) |-> StrategySignal(i, outputs[i][k], first_id + k - 1)]
         \o StrategyRows(outputs, first_id + Len(outputs[i]), i + 1)

RECURSIVE StrategyFactorRows(_, _, _)
StrategyFactorRows(outputs, first_id, i) ==
    IF i > Len(Strategies) THEN <<>>
    ELSE [k \in 1..Len(outputs[i]) |-> StrategyFactor(i, outputs[i][k], first_id + k - 1)]
         \o StrategyFactorRows(outputs, first_id + Len(outputs[i]), i + 1)

\* call_signals / put_signals: the (strategy, signal) pairs of one signal type,
\* in registry order.
RECURSIVE BucketAnyDirection(_, _, _)
BucketAnyDirection(outputs, signal_type, i) ==
    IF i > Len(Strategies) THEN <<>>
    ELSE [k \in 1..Len(outputs[i]) |-> [strategy |-> i, signal |-> outputs[i][k]]]
         \o BucketAnyDirection(outputs, signal_type, i + 1)

RECURSIVE Bucket(_, _, _)
Bucket(outputs, signal_type, i) ==
    IF i > Len(Strategies) THEN <<>>
    ELSE LET mine == SelectSeq(outputs[i], LAMBDA sig : sig.signal_type = signal_type)
         IN  [k \in 1..Len(mine) |-> [strategy |-> i, signal |-> mine[k]]]
             \o Bucket(outputs, signal_type, i + 1)

SimpleAverageHighest(bucket) ==
    [num |-> IF bucket = <<>> THEN 0
             ELSE CHOOSE c \in {bucket[k].signal.confidence_score : k \in 1..Len(bucket)} :
                      \A k \in 1..Len(bucket) : bucket[k].signal.confidence_score <= c,
     den |-> 1]

\* avg_confidence = sum(s.confidence_score for _, s in bucket) / len(bucket),
\* kept as the fraction num / den of hundredths.
SimpleAverage(bucket) ==
    [num |-> SumSeq([k \in 1..Len(bucket) |-> bucket[k].signal.confidence_score]),
     den |-> Len(bucket)]

WeightedConfidenceOverCount(bucket) ==
    [num |-> SumSeq([k \in 1..Len(bucket) |->
                       bucket[k].signal.confidence_score
                         * CombinedWeight(bucket[k].strategy, bucket[k].signal)]),
     den |-> 20 * Len(bucket)]

\* calculate_weighted_confidence: weighted_sum / total_weight, 0.0 for an empty
\* list or a zero total weight; kept as the fraction num / den of hundredths.
WeightedConfidence(bucket) ==
    LET weighted_sum == SumSeq([k \in 1..Len(bucket) |->
                                  bucket[k].signal.confidence_score
                                    * CombinedWeight(bucket[k].strategy, bucket[k].signal)])
        total_weight == SumSeq([k \in 1..Len(bucket) |->
                                  CombinedWeight(bucket[k].strategy, bucket[k].signal)])
    IN  IF bucket = <<>> \/ total_weight <= 0
        THEN [num |-> 0, den |-> 1]
        ELSE [num |-> weighted_sum, den |-> total_weight]

\* The combined confidence of a bucket under the aggregator's policy.
Combined(aggregator, bucket) ==
    IF aggregator = "weighted" THEN WeightedConfidence(bucket) ELSE SimpleAverage(bucket)

BucketPassesWithoutQuorum(aggregator, bucket) ==
    /\ Len(bucket) >= 1
    /\ Combined(aggregator, bucket).num >= 60 * Combined(aggregator, bucket).den

\* len(bucket) >= self.min_strategies and confidence >= self.min_confidence
\* (the defaults 2 and 0.6).
BucketPasses(aggregator, bucket) ==
    /\ Len(bucket) >= 2
    /\ Combined(aggregator, bucket).num >= 60 * Combined(aggregator, bucket).den

\* The Signal row an aggregator saves for a bucket.
EnsembleSignal(aggregator, signal_type, bucket, id) ==
    [id |-> id, signal_type |-> signal_type, signal_source |-> "ensemble",
     status |-> "pending", confidence_score |-> Combined(aggregator, bucket),
     indicator |-> IF aggregator = "weighted" THEN "weighted_ensemble" ELSE "ensemble",
     strategies |-> [k \in 1..Len(bucket) |-> Strategies[bucket[k].strategy].name]]

\* The two SignalFactor rows saved per contributing signal.
RECURSIVE EnsembleFactors(_, _, _, _)
EnsembleFactors(aggregator, bucket, id, k) ==
    IF k > Len(bucket) THEN <<>>
    ELSE << [signal_id |-> id,
             factor_name |-> "strategy_" \o Strategies[bucket[k].strategy].name,
             factor_value |-> bucket[k].signal.confidence_score,
             factor_weight |-> IF aggregator = "weighted"
                               THEN [num |-> CombinedWeight(bucket[k].strategy,
                                                            bucket[k].signal),
                                     den |-> 20]
                               ELSE [num |-> 1, den |-> Len(bucket)]],
            [signal_id |-> id,
             factor_name |-> "source_" \o bucket[k].signal.signal_source,
             factor_value |-> IF aggregator = "weighted"
                              THEN SourceWeight(bucket[k].signal.signal_source) * 10
                              ELSE 100,
             factor_weight |-> [num |-> 0, den |-> 1]] >>
         \o EnsembleFactors(aggregator, bucket, id, k + 1)

EnsembleEmittedPastMissingCall(aggregator, inst, outputs, next_id) ==
    LET calls    == Bucket(outputs, "long_call", 1)
        puts     == Bucket(outputs, "long_put", 1)
        call_out == IF BucketPasses(aggregator, calls) /\ inst.atm_call
                    THEN << EnsembleSignal(aggregator, "long_call", calls, next_id) >>
                    ELSE <<>>
        put_out  == IF BucketPasses(aggregator, puts) /\ inst.atm_put
                    THEN << EnsembleSignal(aggregator, "long_put", puts,
                                           next_id + Len(call_out)) >>
                    ELSE <<>>
    IN  IF inst.last_price = 0 THEN <<>>
        ELSE call_out \o put_out

\* all_signals as generate_signals returns it: the call bucket first; a bucket
\* that passes but finds no ATM option ends the call with what is there.
EnsembleEmitted(aggregator, inst, outputs, next_id) ==
    LET calls    == Bucket(outputs, "long_call", 1)
        puts     == Bucket(outputs, "long_put", 1)
        call_out == IF BucketPasses(aggregator, calls) /\ inst.atm_call
                    THEN << EnsembleSignal(aggregator, "long_call", calls, next_id) >>
                    ELSE <<>>
        put_out  == IF BucketPasses(aggregator, puts) /\ inst.atm_put
                    THEN << EnsembleSignal(aggregator, "long_put", puts,
                                           next_id + Len(call_out)) >>
                    ELSE <<>>
    IN  IF inst.last_price = 0 THEN <<>>
        ELSE IF BucketPasses(aggregator, calls) /\ ~inst.atm_call THEN <<>>
        ELSE call_out \o put_out

\* The SignalFactor rows saved along with the emitted signals.
EmittedFactors(aggregator, outputs, emitted) ==
    LET FactorsOf(sig) == EnsembleFactors(aggregator,
                                          Bucket(outputs, sig.signal_type, 1), sig.id, 1)
    IN  IF emitted = <<>> THEN <<>>
        ELSE IF Len(emitted) = 1 THEN FactorsOf(emitted[1])
        ELSE FactorsOf(emitted[1]) \o FactorsOf(emitted[2])

NoReturn == [aggregator |-> "none", all_signals |-> <<>>]

NoCycle == [aggregator |-> "none", pc |-> "idle", next |-> 0]

(***************************************************************************)
(* Ensemble generator of the signal generation service                     *)
(***************************************************************************)

\* Runs of the ensemble generator within one day.
MaxGeneratorCycles == 2

\* What the technical, fundamental and volatility generators save for the
\* instrument in one run: up to two signals (confidence in hundredths).
ComponentSignals ==
    UNION {[1..n -> [signal_type : {"long_call", "long_put"},
                     signal_source : {"technical"},
                     confidence_score : {60, 80}]] : n \in 0..2}

\* The rows of one signal type among the recent signals, by index.
RecentOfType(rows, signal_type) ==
    {n \in 1..Len(rows) : rows[n].signal_type = signal_type}

\* sum(s.confidence_score for s in ...) over the rows with the given indexes.
ConfidenceSum(rows, members) ==
    SumSeq([n \in 1..Len(rows) |-> IF n \in members THEN rows[n].confidence_score ELSE 0])

\* The ensemble row generate_ensemble_bullish_signal / _bearish_signal saves:
\* confidence min(0.95, mean * 1.2), in hundredths rounded down, and the ids
\* (here: indexes) of the component signals.
EnsembleRow(rows, signal_type, members) ==
    [signal_type |-> signal_type, signal_source |-> "ensemble",
     confidence_score |-> Min(95, (ConfidenceSum(rows, members) * 12)
                                     \div (Cardinality(members) * 10)),
     component_signals |-> members]

\* The rows the second half of EnsembleSignalGenerator.generate_signals adds
\* for the instrument, given every recent Signal row of it; the chain has the
\* options of both types.
EnsembleGeneratorRows(rows) ==
    LET bullish == RecentOfType(rows, "long_call")
        bearish == RecentOfType(rows, "long_put")
        bullish_confidence == ConfidenceSum(rows, bullish)
        bearish_confidence == ConfidenceSum(rows, bearish)
    IN  IF bullish_confidence > 150 /\ bullish_confidence > bearish_confidence * 2
        THEN << EnsembleRow(rows, "long_call", bullish) >>
        ELSE IF bearish_confidence > 150 /\ bearish_confidence > bullish_confidence * 2
        THEN << EnsembleRow(rows, "long_put", bearish) >>
        ELSE <<>>

(***************************************************************************)
(* Stop-loss / take-profit check                                           *)
(***************************************************************************)

\* Position.current_price is nullable: the value standing for None.
NoPrice == -1

\* Positions the check is asked about; only the first exists.
CheckedPositionIds == {1, 2}

CheckCurrentPrices == {NoPrice, 0, 500, 570, 700, 810, 840, 900}

\* stop_loss_price and take_profit_price, 0 standing for a level not set
\* (None and 0.0 are both false in the test "not position.stop_loss_price").
CheckStopLossPrices == {0, 560}
CheckTakeProfitPrices == {0, 840}

CheckPositionTypes == {"LONG_CALL", "LONG_PUT", "SHORT_CALL"}

\* expiration_date - utcnow().date(), in days.
CheckDaysToExpiration == {3, 7}

\* RiskProfile.max_loss_per_trade (percent), the column default.
MaxLossPerTrade == 25

NoPosition == [id |-> 0, position_type |-> "none", status |-> "none", quantity |-> 0,
               entry_price |-> 0, current_price |-> 0, stop_loss_price |-> 0,
               take_profit_price |-> 0, days_to_expiration |-> 0]

ErrorResult(message) == [status |-> "error", message |-> message]

\* calculate_stop_loss_take_profit with the default risk_reward_ratio 2.0:
\* stop = entry * (1 - max_loss * min(1, dte / 7) / 100), at least 0.01, and
\* take-profit = entry + 2 * (entry - stop).  A position without a current
\* price, or with the price 0, makes the function raise inside its try.
CalculateStopLossTakeProfit(pos) ==
    LET stop_loss_price == Max(1, pos.entry_price
                                  - (pos.entry_price * MaxLossPerTrade
                                        * Min(7, pos.days_to_expiration)) \div 700)
        take_profit_price == pos.entry_price + 2 * (pos.entry_price - stop_loss_price)
    IN  IF pos.current_price = NoPrice
        THEN ErrorResult("'>' not supported between instances of 'NoneType' and 'float'")
        ELSE IF pos.current_price = 0
        THEN ErrorResult("float division by zero")
        ELSE [status |-> "ok", stop_loss_price |-> stop_loss_price,
              take_profit_price |-> take_profit_price]

\* The message of a check whose levels are set.
CheckMessage(pos, stop_loss_hit, take_profit_hit) ==
    IF stop_loss_hit
    THEN "Stop-loss level has been hit. Consider closing the position."
    ELSE IF take_profit_hit
    THEN "Take-profit level has been hit. Consider closing the position or raising stop-loss to lock in profits."
    ELSE IF /\ pos.stop_loss_price # 0
            /\ (pos.stop_loss_price - pos.current_price) * 100 > (-5) * pos.current_price
    THEN "Position is approaching stop-loss level."
    ELSE IF /\ pos.take_profit_price # 0
            /\ (pos.take_profit_price - pos.current_price) * 100 < 5 * pos.current_price
    THEN "Position is approaching take-profit level."
    ELSE "Position is within acceptable range."

\* The dict check_stop_loss_take_profit(position_id) returns for the stored row
\* (without symbol, pct_to_stop_loss and pct_to_take_profit, which repeat the
\* prices).  The instrument, the portfolio and the user of the position exist.
CheckResult(position_id, pos) ==
    LET long            == pos.position_type \in {"LONG_CALL", "LONG_PUT"}
        stop_loss_hit   == /\ pos.stop_loss_price # 0
                           /\ long
                           /\ pos.current_price <= pos.stop_loss_price
        take_profit_hit == /\ pos.take_profit_price # 0
                           /\ long
                           /\ pos.current_price >= pos.take_profit_price
        sl_tp           == CalculateStopLossTakeProfit(pos)
    IN  IF position_id # pos.id
        THEN ErrorResult("Position not found")
        ELSE IF pos.stop_loss_price = 0 /\ pos.take_profit_price = 0
        THEN IF sl_tp.status = "error" THEN sl_tp
             ELSE [status |-> "ok", position_id |-> position_id,
                   current_price |-> pos.current_price,
                   stop_loss_hit |-> FALSE, take_profit_hit |-> FALSE,
                   message |-> "No stop-loss or take-profit levels set",
                   recommendations |-> [set_stop_loss |-> sl_tp.stop_loss_price,
                                        set_take_profit |-> sl_tp.take_profit_price]]
        ELSE IF pos.current_price = NoPrice /\ long /\ pos.stop_loss_price # 0
        THEN ErrorResult("'<=' not supported between instances of 'NoneType' and 'float'")
        ELSE IF pos.current_price = NoPrice /\ long
        THEN ErrorResult("'>=' not supported between instances of 'NoneType' and 'float'")
        ELSE IF pos.current_price = NoPrice
        THEN ErrorResult("unsupported operand type(s) for -: 'float' and 'NoneType'")
        ELSE IF pos.current_price = 0
        THEN ErrorResult("float division by zero")
        ELSE [status |-> "ok", position_id |-> position_id,
              position_type |-> pos.position_type, entry_price |-> pos.entry_price,
              current_price |-> pos.current_price,
              stop_loss_price |-> pos.stop_loss_price,
              take_profit_price |-> pos.take_profit_price,
              stop_loss_hit |-> stop_loss_hit, take_profit_hit |-> take_profit_hit,
              message |-> CheckMessage(pos, stop_loss_hit, take_profit_hit)]

PositionClosedOnHit(pos, result) ==
    IF result.status = "ok" /\ (result.stop_loss_hit \/ result.take_profit_hit)
    THEN [pos EXCEPT !.status = "CLOSED", !.quantity = 0]
    ELSE pos

\* The stored row after a check: the function assigns no attribute and makes
\* no add, delete or commit.
PositionAfterCheck(pos, result) == pos

(***************************************************************************)
(* Signals API                                                             *)
(***************************************************************************)

\* SignalStatus
SignalStatuses == {"active", "executed", "expired", "cancelled", "pending"}

\* confidence_score values a request body may carry (hundredths): the schemas
\* declare a float with no bounds.
RequestConfidences == {-50, 75, 150}

\* The fields of SignalUpdate a request may set, among those the model keeps.
UpdateFields == {"status", "confidence_score"}

NoUpdate == [signal_id |-> 0, from |-> "none", to |-> "none"]

\* setattr(db_signal, key, value) for the keys of
\* signal_update.dict(exclude_unset=True).
UpdatedRow(row, set_fields, status, confidence_score) ==
    [row EXCEPT !.status = IF "status" \in set_fields THEN status ELSE @,
                !.confidence_score = IF "confidence_score" \in set_fields
                                     THEN confidence_score ELSE @]

(***************************************************************************)
(* Quiescent values of each component's variables                          *)
(***************************************************************************)

\* The ladder with no call made and no concurrent caller.
LadderIdle ==
    /\ profit_taking = <<>>
    /\ ladder_calls = <<>>
    /\ ladder_pc = <<>>
    /\ ladder_local = <<>>

\* The sizers with no account loaded and no request made.
SizerIdle ==
    /\ account = [portfolio_value |-> 0, max_portfolio_risk |-> 0,
                  max_stock_allocation |-> 0]
    /\ positions = <<>>
    /\ fundamental_data = NoFundamentalData
    /\ avg_correlation = NoCorrelation
    /\ sizing = NoSizing
    /\ sizer_pc = <<>>
    /\ sizer_local = <<>>

\* The exit planner with no position loaded and no evaluation made.
ExitIdle ==
    /\ position = [entry_price |-> 0, stop_loss_price |-> 0, current_price |-> 0]
    /\ exit_eval = NoEval
    /\ prev_eval = NoEval
    /\ highest_stop = 0

\* The aggregators with no snapshot taken and nothing saved.
EnsembleIdle ==
    /\ instrument = [last_price |-> 0, atm_call |-> FALSE, atm_put |-> FALSE]
    /\ strategy_outputs = <<>>
    /\ signals = <<>>
    /\ signal_factors = <<>>
    /\ ensemble_returned = NoReturn

\* No step-wise generate_signals call in progress.
CycleIdle ==
    /\ cycle = NoCycle
    /\ evaluations = <<>>

\* The technical generator not started.
GeneratorIdle ==
    /\ symbols = <<>>
    /\ generator = [symbol |-> 0, step |-> "idle"]
    /\ outcomes = <<>>
    /\ technical_signals = <<>>

\* The signals API with no signal stored and no request served.
ApiIdle ==
    /\ db_signals = <<>>
    /\ last_update = NoUpdate
    /\ api_calls = 0

\* No position loaded for a stop-loss check and no check made.
CheckIdle ==
    /\ checked_position = NoPosition
    /\ position_before = NoPosition
    /\ check_results = <<>>

\* No expiration loaded and no threshold adjustment made.
DteIdle ==
    /\ ladder_days_to_expiration = NoExpiration
    /\ adjusted_thresholds = <<>>

\* No exit levels asked for.
LevelsIdle ==
    /\ levels_request = [entry_price |-> 0, risk_level |-> "none"]
    /\ levels = NoLevels
    /\ prev_levels = NoLevels

\* The earnings strategy has not been asked.
EarningsIdle ==
    /\ earnings_input = NoEarningsInput
    /\ earnings_signals = <<>>

\* No price row and no MACD evaluation.
MacdIdle ==
    /\ macd_chain = [atm_call |-> FALSE, atm_put |-> FALSE]
    /\ macd_ticks = <<>>
    /\ macd_returned = <<>>

\* No closed signal and no summary asked for.
SummaryIdle ==
    /\ closed_signals = <<>>
    /\ summary = NoSummary

\* No Signal row and no run of the ensemble generator.
RecentIdle ==
    /\ recent_signals = <<>>
    /\ generator_cycles = 0

LadderOthersIdle == SizerIdle /\ ExitIdle /\ EnsembleIdle /\ CycleIdle /\ GeneratorIdle /\ ApiIdle /\ CheckIdle /\ DteIdle /\ LevelsIdle /\ EarningsIdle /\ MacdIdle /\ SummaryIdle /\ RecentIdle
SizerOthersIdle == LadderIdle /\ ExitIdle /\ EnsembleIdle /\ CycleIdle /\ GeneratorIdle /\ ApiIdle /\ CheckIdle /\ DteIdle /\ LevelsIdle /\ EarningsIdle /\ MacdIdle /\ SummaryIdle /\ RecentIdle
ExitOthersIdle == LadderIdle /\ SizerIdle /\ EnsembleIdle /\ CycleIdle /\ GeneratorIdle /\ ApiIdle /\ CheckIdle /\ DteIdle /\ LevelsIdle /\ EarningsIdle /\ MacdIdle /\ SummaryIdle /\ RecentIdle
EnsembleOthersIdle == LadderIdle /\ SizerIdle /\ ExitIdle /\ CycleIdle /\ GeneratorIdle /\ ApiIdle /\ CheckIdle /\ DteIdle /\ LevelsIdle /\ EarningsIdle /\ MacdIdle /\ SummaryIdle /\ RecentIdle
CycleOthersIdle == LadderIdle /\ SizerIdle /\ ExitIdle /\ GeneratorIdle /\ ApiIdle /\ CheckIdle /\ DteIdle /\ LevelsIdle /\ EarningsIdle /\ MacdIdle /\ SummaryIdle /\ RecentIdle
GeneratorOthersIdle == LadderIdle /\ SizerIdle /\ ExitIdle /\ EnsembleIdle /\ CycleIdle /\ ApiIdle /\ CheckIdle /\ DteIdle /\ LevelsIdle /\ EarningsIdle /\ MacdIdle /\ SummaryIdle /\ RecentIdle
ApiOthersIdle == LadderIdle /\ SizerIdle /\ ExitIdle /\ EnsembleIdle /\ CycleIdle /\ GeneratorIdle /\ CheckIdle /\ DteIdle /\ LevelsIdle /\ EarningsIdle /\ MacdIdle /\ SummaryIdle /\ RecentIdle
CheckOthersIdle == LadderIdle /\ SizerIdle /\ ExitIdle /\ EnsembleIdle /\ CycleIdle /\ GeneratorIdle /\ ApiIdle /\ DteIdle /\ LevelsIdle /\ EarningsIdle /\ MacdIdle /\ SummaryIdle /\ RecentIdle
DteOthersIdle == SizerIdle /\ ExitIdle /\ EnsembleIdle /\ CycleIdle /\ GeneratorIdle /\ ApiIdle /\ CheckIdle /\ LevelsIdle /\ EarningsIdle /\ MacdIdle /\ SummaryIdle /\ RecentIdle
LevelsOthersIdle == LadderIdle /\ SizerIdle /\ ExitIdle /\ EnsembleIdle /\ CycleIdle /\ GeneratorIdle /\ ApiIdle /\ CheckIdle /\ DteIdle /\ EarningsIdle /\ MacdIdle /\ SummaryIdle /\ RecentIdle
EarningsOthersIdle == LadderIdle /\ SizerIdle /\ ExitIdle /\ EnsembleIdle /\ CycleIdle /\ GeneratorIdle /\ ApiIdle /\ CheckIdle /\ DteIdle /\ LevelsIdle /\ MacdIdle /\ SummaryIdle /\ RecentIdle
MacdOthersIdle == LadderIdle /\ SizerIdle /\ ExitIdle /\ EnsembleIdle /\ CycleIdle /\ GeneratorIdle /\ ApiIdle /\ CheckIdle /\ DteIdle /\ LevelsIdle /\ EarningsIdle /\ SummaryIdle /\ RecentIdle
SummaryOthersIdle == LadderIdle /\ SizerIdle /\ ExitIdle /\ EnsembleIdle /\ CycleIdle /\ GeneratorIdle /\ ApiIdle /\ CheckIdle /\ DteIdle /\ LevelsIdle /\ EarningsIdle /\ MacdIdle /\ RecentIdle
RecentOthersIdle == LadderIdle /\ SizerIdle /\ ExitIdle /\ EnsembleIdle /\ CycleIdle /\ GeneratorIdle /\ ApiIdle /\ CheckIdle /\ DteIdle /\ LevelsIdle /\ EarningsIdle /\ MacdIdle /\ SummaryIdle

(***************************************************************************)
(* Ladder: one caller at a time                                            *)
(***************************************************************************)

LadderInit ==
    /\ LadderIdle
    /\ LadderOthersIdle

\* One whole call of implement_partial_profit_taking, no other caller in between.
ImplementPartialProfitTaking(position_id, current_profit_pct) ==
    /\ Len(ladder_calls) < MaxLadderCalls
    /\ LET result == PartialProfitResult(position_id, current_profit_pct,
                                         HistoryOf(profit_taking, position_id))
       IN  /\ profit_taking' = CommitResult(profit_taking, result)
           /\ ladder_calls' = Append(ladder_calls, result)
    /\ UNCHANGED <<ladder_pc, ladder_local, ladder_others>>

LadderNext ==
    \E position_id \in RequestedPositionIds, profit \in ProfitLevels :
        ImplementPartialProfitTaking(position_id, profit)

SpecLadder == LadderInit /\ [][LadderNext]_vars

(***************************************************************************)
(* Initial exit levels asked for again as expiration nears                 *)
(***************************************************************************)

\* The profile-based service's calculate_stop_loss_take_profit on an open
\* position bought at entry_price, with the profile's max_loss_per_trade.
ProfileStopLossTakeProfit(entry_price, days_to_expiration) ==
    LET result == CalculateStopLossTakeProfit(
                     [NoPosition EXCEPT !.id = 1, !.position_type = "LONG_CALL",
                                        !.status = "ACTIVE", !.entry_price = entry_price,
                                        !.current_price = entry_price,
                                        !.days_to_expiration = days_to_expiration])
    IN  [service |-> "profile", days_to_expiration |-> days_to_expiration,
         entry_price |-> entry_price, stop_loss_price |-> result.stop_loss_price,
         take_profit_price |-> result.take_profit_price, risk_pct |-> MaxLossPerTrade]

LevelsInit ==
    /\ LevelsOthersIdle
    /\ levels_request \in [entry_price : LevelEntryPrices, risk_level : RiskLevelNames]
    /\ levels = NoLevels
    /\ prev_levels = NoLevels

\* calculate_stop_loss_take_profit(position_id, entry_price, days_to_expiration,
\* risk_level) of the updated service.
CalculateLevels(days_to_expiration) ==
    /\ levels' = StopLossTakeProfit(levels_request.entry_price, days_to_expiration,
                                    levels_request.risk_level)
    /\ prev_levels' = levels
    /\ UNCHANGED <<levels_request, levels_others>>

\* calculate_stop_loss_take_profit(position_id) of the profile-based service,
\* the position expiring in days_to_expiration days.
CalculateProfileLevels(days_to_expiration) ==
    /\ levels' = ProfileStopLossTakeProfit(levels_request.entry_price, days_to_expiration)
    /\ prev_levels' = levels
    /\ UNCHANGED <<levels_request, levels_others>>

LevelsNext ==
    \E days_to_expiration \in LevelDaysToExpiration :
        \/ CalculateLevels(days_to_expiration)
        \/ CalculateProfileLevels(days_to_expiration)

SpecLevels == LevelsInit /\ [][LevelsNext]_vars

(***************************************************************************)
(* Earnings strategy: one evaluation per day around the earnings date      *)
(***************************************************************************)

EarningsInit ==
    /\ EarningsOthersIdle
    /\ earnings_input \in EarningsInputs
    /\ earnings_input.days_until_earnings = 15
    /\ earnings_signals = <<>>

\* EarningsStrategy.generate_signals(instrument).
EarningsGenerateSignals ==
    /\ earnings_signals' = EarningsSignals(earnings_input)
    /\ UNCHANGED <<earnings_input, earnings_others>>

\* A day passes: the earnings date is one day nearer (or further behind).
EarningsDayPasses ==
    /\ earnings_input.days_until_earnings > -3
    /\ earnings_input' = [earnings_input EXCEPT !.days_until_earnings = @ - 1]
    /\ earnings_signals' = <<>>
    /\ UNCHANGED earnings_others

EarningsNext ==
    \/ EarningsGenerateSignals
    \/ EarningsDayPasses

SpecEarnings == EarningsInit /\ [][EarningsNext]_vars

(***************************************************************************)
(* MACD strategy evaluated at every price tick                             *)
(***************************************************************************)

MacdInit ==
    /\ MacdOthersIdle
    /\ macd_chain \in [atm_call : BOOLEAN, atm_put : BOOLEAN]
    /\ macd_ticks = <<>>
    /\ macd_returned = <<>>

\* A price row arrives with the given macd - signal and
\* MACDStrategy.generate_signals(instrument) runs on the rows so far.
MacdTick(difference) ==
    /\ Len(macd_ticks) < MaxTicks
    /\ macd_ticks' = Append(macd_ticks, difference)
    /\ macd_returned' = Append(macd_returned,
                               MACDSignals(Append(macd_ticks, difference), macd_chain))
    /\ UNCHANGED <<macd_chain, macd_others>>

MacdNext == \E difference \in MacdDifferences : MacdTick(difference)

SpecMacd == MacdInit /\ [][MacdNext]_vars

(***************************************************************************)
(* Signal performance summary over the closed signals                      *)
(***************************************************************************)

SummaryInit ==
    /\ SummaryIdle
    /\ SummaryOthersIdle

\* A signal is closed with the given profit_loss.
CloseSignal(profit_loss) ==
    /\ Len(closed_signals) < MaxClosedSignals
    /\ closed_signals' = Append(closed_signals, profit_loss)
    /\ UNCHANGED <<summary, summary_others>>

\* GET /performance/summary with no filter.
GetSignalsPerformanceSummary ==
    /\ summary' = PerformanceSummary(closed_signals)
    /\ UNCHANGED <<closed_signals, summary_others>>

SummaryNext ==
    \/ \E profit_loss \in ProfitLosses : CloseSignal(profit_loss)
    \/ GetSignalsPerformanceSummary

SpecSummary == SummaryInit /\ [][SummaryNext]_vars

(***************************************************************************)
(* Ensemble generator run repeatedly within a day                          *)
(***************************************************************************)

RecentInit ==
    /\ RecentIdle
    /\ RecentOthersIdle

\* EnsembleSignalGenerator.generate_signals for one instrument: the three
\* generators save their signals, then the recent rows are read and combined.
EnsembleGeneratorCycle(components) ==
    /\ generator_cycles < MaxGeneratorCycles
    /\ LET saved == recent_signals
                      \o [n \in 1..Len(components) |->
                            [signal_type |-> components[n].signal_type,
                             signal_source |-> components[n].signal_source,
                             confidence_score |-> components[n].confidence_score,
                             component_signals |-> {}]]
       IN  recent_signals' = saved \o EnsembleGeneratorRows(saved)
    /\ generator_cycles' = generator_cycles + 1
    /\ UNCHANGED recent_others

RecentNext == \E components \in ComponentSignals : EnsembleGeneratorCycle(components)

SpecRecent == RecentInit /\ [][RecentNext]_vars

(***************************************************************************)
(* The ladder on a position nearing expiration                             *)
(***************************************************************************)

\* Profit levels reported near expiration (hundredths): the first de-rated
\* level at 1 DTE, the first base level and the last base level.
DteProfitLevels == {8, 20, 50}

DteLadderInit ==
    /\ LadderIdle
    /\ DteOthersIdle
    /\ ladder_days_to_expiration \in LadderDaysToExpiration
    /\ adjusted_thresholds = <<>>

\* adjust_take_profit_for_dte(position_id): returns the adjusted thresholds and
\* stores nothing.
AdjustTakeProfitForDte ==
    /\ adjusted_thresholds = <<>>
    /\ adjusted_thresholds' = AdjustedThresholds(ladder_days_to_expiration)
    /\ UNCHANGED <<ladder_days_to_expiration, ladder_vars, dte_others>>

DteLadderNext ==
    \/ AdjustTakeProfitForDte
    \/ \E profit \in DteProfitLevels : ImplementPartialProfitTaking(1, profit)

SpecLadderDte == DteLadderInit /\ [][DteLadderNext]_vars

(***************************************************************************)
(* Ladder: concurrent callers.  Each caller runs on its own Session; the   *)
(* query of the history (lines 497-500) and the add/commit of the new row  *)
(* (lines 532-533) are separate database round trips with nothing held in  *)
(* between.                                                                *)
(***************************************************************************)

NumLadderCallers == 2
MaxConcurrentLadderCalls == 3

LadderCallers == 1..NumLadderCallers

NoLocal == [position_id |-> 0, current_profit_pct |-> 0, history |-> <<>>]

LadderConcInit ==
    /\ profit_taking = <<>>
    /\ ladder_calls = <<>>
    /\ ladder_pc = [c \in LadderCallers |-> "idle"]
    /\ ladder_local = [c \in LadderCallers |-> NoLocal]
    /\ LadderOthersIdle

InFlight == Cardinality({c \in LadderCallers : ladder_pc[c] = "read"})

\* Lines 492-500: the caller looks the position up and reads its history.
LadderReadHistory(c, position_id, current_profit_pct) ==
    /\ ladder_pc[c] = "idle"
    /\ Len(ladder_calls) + InFlight < MaxConcurrentLadderCalls
    /\ ladder_local' = [ladder_local EXCEPT ![c] =
           [position_id |-> position_id, current_profit_pct |-> current_profit_pct,
            history |-> HistoryOf(profit_taking, position_id)]]
    /\ ladder_pc' = [ladder_pc EXCEPT ![c] = "read"]
    /\ UNCHANGED <<profit_taking, ladder_calls, ladder_others>>

\* Lines 502-550: the thresholds are evaluated on the history read earlier and
\* the new row, if any, is added and committed.
LadderCommit(c) ==
    /\ ladder_pc[c] = "read"
    /\ LET result == PartialProfitResult(ladder_local[c].position_id,
                                         ladder_local[c].current_profit_pct,
                                         ladder_local[c].history)
       IN  /\ profit_taking' = CommitResult(profit_taking, result)
           /\ ladder_calls' = Append(ladder_calls, result)
    /\ ladder_pc' = [ladder_pc EXCEPT ![c] = "idle"]
    /\ ladder_local' = [ladder_local EXCEPT ![c] = NoLocal]
    /\ UNCHANGED ladder_others

LadderConcNext ==
    \/ \E c \in LadderCallers, position_id \in PositionIds, profit \in ProfitLevels :
           LadderReadHistory(c, position_id, profit)
    \/ \E c \in LadderCallers : LadderCommit(c)

SpecLadderConc == LadderConcInit /\ [][LadderConcNext]_vars

(***************************************************************************)
(* Floor-policy sizer: one request at a time                               *)
(***************************************************************************)

CurrentAllocation(rows) == SumSeq(rows)

SizerInit ==
    /\ SizerOthersIdle
    /\ account \in [portfolio_value : PortfolioValues,
                    max_portfolio_risk : MaxPortfolioRisks,
                    max_stock_allocation : MaxStockAllocations]
    /\ \E a \in CurrentAllocations : positions = IF a = 0 THEN <<>> ELSE <<a>>
    /\ fundamental_data \in FundamentalRows
    /\ avg_correlation \in AvgCorrelations \cup {NoCorrelation}
    /\ sizing = NoSizing
    /\ sizer_pc = <<>>
    /\ sizer_local = <<>>

\* One whole call of the floor-policy calculate_position_size.
CalculatePositionSize(user_id, instrument_id, signal_confidence, option_price) ==
    /\ sizing' = FloorPolicySize(user_id, instrument_id, signal_confidence, option_price,
                                 account, CurrentAllocation(positions),
                                 fundamental_data, avg_correlation)
    /\ UNCHANGED <<account, positions, fundamental_data, avg_correlation,
                   sizer_pc, sizer_local, sizer_others>>

SizerNext ==
    \E user_id \in RequestedUserIds, instrument_id \in RequestedInstrumentIds,
       signal_confidence \in SignalConfidences, option_price \in OptionPrices :
        CalculatePositionSize(user_id, instrument_id, signal_confidence, option_price)

SpecSizer == SizerInit /\ [][SizerNext]_vars

(***************************************************************************)
(* Plain-policy sizer: concurrent requests.  POST /position-size answers   *)
(* a request with a contract count and writes nothing; the position is     *)
(* opened by a later request of the caller.                                *)
(***************************************************************************)

NumSizingRequests == 2
MaxPositions == 2

SizingRequests == 1..NumSizingRequests

SizerConcInit ==
    /\ SizerOthersIdle
    /\ account \in [portfolio_value : PortfolioValues,
                    max_portfolio_risk : MaxPortfolioRisks,
                    max_stock_allocation : MaxStockAllocations]
    \* the allocation already held is within the per-instrument limit
    /\ \E a \in CurrentAllocations :
           /\ a * 100 <= account.portfolio_value * account.max_stock_allocation
           /\ positions = IF a = 0 THEN <<>> ELSE <<a>>
    /\ fundamental_data = NoFundamentalData
    /\ avg_correlation = NoCorrelation
    /\ sizing = NoSizing
    /\ sizer_pc = [r \in SizingRequests |-> "idle"]
    /\ sizer_local = [r \in SizingRequests |-> NoSizing]

\* One request to the plain-policy calculate_position_size: it reads the
\* current allocation, answers, and reserves nothing.
SizePositionRequest(r, signal_confidence, option_price) ==
    /\ sizer_pc[r] = "idle"
    /\ Len(positions) + Cardinality({q \in SizingRequests : sizer_pc[q] = "sized"})
           < MaxPositions
    /\ LET result == PlainPolicySize(1, 1, signal_confidence, option_price,
                                     account, CurrentAllocation(positions))
       IN  sizer_local' = [sizer_local EXCEPT ![r] = result]
    /\ sizer_pc' = [sizer_pc EXCEPT ![r] = "sized"]
    /\ UNCHANGED <<account, positions, fundamental_data, avg_correlation, sizing,
                   sizer_others>>

\* The caller opens the position it was granted: an ACTIVE Position whose
\* current_value is contracts x option price x 100.
OpenSizedPosition(r) ==
    /\ sizer_pc[r] = "sized"
    /\ positions' = IF sizer_local[r].contracts > 0
                    THEN Append(positions, sizer_local[r].contracts
                                             * sizer_local[r].contract_value)
                    ELSE positions
    /\ sizer_pc' = [sizer_pc EXCEPT ![r] = "idle"]
    /\ sizer_local' = [sizer_local EXCEPT ![r] = NoSizing]
    /\ UNCHANGED <<account, fundamental_data, avg_correlation, sizing, sizer_others>>

SizerConcNext ==
    \/ \E r \in SizingRequests, signal_confidence \in SignalConfidences,
          option_price \in OptionPrices :
           SizePositionRequest(r, signal_confidence, option_price)
    \/ \E r \in SizingRequests : OpenSizedPosition(r)

SpecSizerConc == SizerConcInit /\ [][SizerConcNext]_vars

(***************************************************************************)
(* Exit planner: evaluations of one position over its life                 *)
(***************************************************************************)

ExitInit ==
    /\ ExitOthersIdle
    /\ \E entry \in EntryPrices, stop \in StopLossLevels :
           position = [entry_price |-> entry,
                       stop_loss_price |-> (entry * stop) \div 100,
                       current_price |-> entry]
    /\ exit_eval = NoEval
    /\ prev_eval = NoEval
    /\ highest_stop = 0

\* The price feed moves Position.current_price and the caller evaluates
\* calculate_dynamic_take_profit with the profit percentage of that price.
EvaluateDynamicTakeProfit(level) ==
    LET moved  == [position EXCEPT !.current_price = (position.entry_price * level) \div 100]
        result == DynamicTakeProfit(moved, ProfitPct(moved.current_price, moved.entry_price))
    IN  /\ position' = moved
        /\ prev_eval' = exit_eval
        /\ exit_eval' = result
        /\ highest_stop' = Max(highest_stop, result.adjusted_stop_loss)
        /\ UNCHANGED exit_others

ExitNext == \E level \in PriceLevels : EvaluateDynamicTakeProfit(level)

SpecExit == ExitInit /\ [][ExitNext]_vars

(***************************************************************************)
(* Ensemble aggregators: one aggregation cycle for one instrument          *)
(***************************************************************************)

\* A signal as a strategy returns it.
Candidate(i, signal_type, c) ==
    [signal_type |-> signal_type, signal_source |-> Strategies[i].source,
     confidence_score |-> Strategies[i].confidences[c]]

EnsembleInit ==
    /\ EnsembleOthersIdle
    /\ instrument \in { [last_price |-> 0,   atm_call |-> TRUE,  atm_put |-> TRUE],
                        [last_price |-> 100, atm_call |-> TRUE,  atm_put |-> TRUE],
                        [last_price |-> 100, atm_call |-> FALSE, atm_put |-> TRUE],
                        [last_price |-> 100, atm_call |-> TRUE,  atm_put |-> FALSE] }
    \* each strategy returns no signal or one, and at most MaxCandidates return one
    /\ \E emitting \in {S \in SUBSET StrategyIndexes : Cardinality(S) <= MaxCandidates} :
         \E signal_type \in [emitting -> {"long_call", "long_put"}] :
            \E high \in SUBSET {i \in emitting : Len(Strategies[i].confidences) > 1} :
               strategy_outputs =
                   [i \in StrategyIndexes |->
                       IF i \in emitting
                       THEN << Candidate(i, signal_type[i], IF i \in high THEN 2 ELSE 1) >>
                       ELSE <<>>]
    /\ signals = <<>>
    /\ signal_factors = <<>>
    /\ ensemble_returned = NoReturn

\* What one call of generate_signals of an aggregator saves and returns: it
\* evaluates the strategies, which save their own signals, collects what they
\* return, buckets it and combines each bucket.
AggregatorSaves(aggregator) ==
    LET evaluated == instrument.last_price # 0
        saved     == IF evaluated
                     THEN StrategyRows(strategy_outputs, Len(signals) + 1, 1)
                     ELSE <<>>
        factors   == IF evaluated
                     THEN StrategyFactorRows(strategy_outputs, Len(signals) + 1, 1)
                     ELSE <<>>
        emitted   == EnsembleEmitted(aggregator, instrument, strategy_outputs,
                                     Len(signals) + Len(saved) + 1)
    IN  /\ signals' = signals \o saved \o emitted
        /\ signal_factors' = signal_factors \o factors
                               \o EmittedFactors(aggregator, strategy_outputs, emitted)
        /\ ensemble_returned' = [aggregator |-> aggregator, all_signals |-> emitted]

\* EnsembleStrategy.generate_signals
EnsembleGenerateSignals ==
    /\ ensemble_returned.aggregator = "none"
    /\ AggregatorSaves("simple")
    /\ UNCHANGED <<instrument, strategy_outputs, ensemble_others>>

\* WeightedEnsembleStrategy.generate_signals
WeightedEnsembleGenerateSignals ==
    /\ ensemble_returned.aggregator = "none"
    /\ AggregatorSaves("weighted")
    /\ UNCHANGED <<instrument, strategy_outputs, ensemble_others>>

EnsembleNext ==
    \/ EnsembleGenerateSignals
    \/ WeightedEnsembleGenerateSignals

SpecEnsemble == EnsembleInit /\ [][EnsembleNext]_vars

(***************************************************************************)
(* One generate_signals call of an aggregator, strategy by strategy         *)
(***************************************************************************)

MaxCycleCandidates == 2
MaxRaised == 1

Raised == {i \in StrategyIndexes : evaluations[i] = "raised"}
Collected == {i \in StrategyIndexes : strategy_outputs[i] # <<>>}

FirstEvaluated(next) == next > 1

\* The loop over self.strategies.items() has called every strategy.
AllEvaluated(next) == next > Len(Strategies)

CycleInit ==
    /\ CycleOthersIdle
    /\ instrument \in { [last_price |-> 0,   atm_call |-> TRUE, atm_put |-> TRUE],
                        [last_price |-> 100, atm_call |-> TRUE, atm_put |-> TRUE] }
    /\ strategy_outputs = [i \in StrategyIndexes |-> <<>>]
    /\ signals = <<>>
    /\ signal_factors = <<>>
    /\ ensemble_returned = NoReturn
    /\ \E aggregator \in {"simple", "weighted"} :
           cycle = [aggregator |-> aggregator, pc |-> "start", next |-> 0]
    /\ evaluations = [i \in StrategyIndexes |-> "pending"]

\* generate_signals up to the collection loop: without a last price it returns
\* the empty list before any strategy is called.
EnterGenerateSignals ==
    /\ cycle.pc = "start"
    /\ IF instrument.last_price = 0
       THEN /\ cycle' = [cycle EXCEPT !.pc = "done"]
            /\ ensemble_returned' = [aggregator |-> cycle.aggregator, all_signals |-> <<>>]
       ELSE /\ cycle' = [cycle EXCEPT !.pc = "collect", !.next = 1]
            /\ UNCHANGED ensemble_returned
    /\ UNCHANGED <<instrument, strategy_outputs, signals, signal_factors, evaluations,
                   cycle_others>>

\* strategy.generate_signals(instrument) returns the empty list.
StrategyReturnsNothing ==
    /\ cycle.pc = "collect"
    /\ cycle.next <= Len(Strategies)
    /\ evaluations' = [evaluations EXCEPT ![cycle.next] = "returned"]
    /\ cycle' = [cycle EXCEPT !.next = @ + 1]
    /\ UNCHANGED <<instrument, strategy_outputs, signals, signal_factors,
                   ensemble_returned, cycle_others>>

\* strategy.generate_signals(instrument) saves a signal with its factors and
\* returns it; the aggregator keeps it in strategy_signals[name].
StrategyReturnsSignal(signal_type, c) ==
    /\ cycle.pc = "collect"
    /\ cycle.next <= Len(Strategies)
    /\ Cardinality(Collected) < MaxCycleCandidates
    /\ c \in 1..Len(Strategies[cycle.next].confidences)
    /\ LET signal == Candidate(cycle.next, signal_type, c)
           id     == Len(signals) + 1
       IN  /\ signals' = Append(signals, StrategySignal(cycle.next, signal, id))
           /\ signal_factors' = Append(signal_factors,
                                       StrategyFactor(cycle.next, signal, id))
           /\ strategy_outputs' = [strategy_outputs EXCEPT ![cycle.next] = << signal >>]
    /\ evaluations' = [evaluations EXCEPT ![cycle.next] = "returned"]
    /\ cycle' = [cycle EXCEPT !.next = @ + 1]
    /\ UNCHANGED <<instrument, ensemble_returned, cycle_others>>

\* strategy.generate_signals(instrument) raises; the aggregator logs the error
\* and goes on with the next strategy.
StrategyRaises ==
    /\ cycle.pc = "collect"
    /\ cycle.next <= Len(Strategies)
    /\ Cardinality(Raised) < MaxRaised
    /\ evaluations' = [evaluations EXCEPT ![cycle.next] = "raised"]
    /\ cycle' = [cycle EXCEPT !.next = @ + 1]
    /\ UNCHANGED <<instrument, strategy_outputs, signals, signal_factors,
                   ensemble_returned, cycle_others>>

\* The rest of generate_signals once the loop has ended: bucketing, the quorum
\* and confidence decisions, and the saves of the combined signals.
CombineBuckets ==
    /\ cycle.pc = "collect"
    /\ AllEvaluated(cycle.next)
    /\ LET emitted == EnsembleEmitted(cycle.aggregator, instrument, strategy_outputs,
                                     Len(signals) + 1)
       IN  /\ signals' = signals \o emitted
           /\ signal_factors' = signal_factors
                  \o EmittedFactors(cycle.aggregator, strategy_outputs, emitted)
           /\ ensemble_returned' = [aggregator |-> cycle.aggregator,
                                    all_signals |-> emitted]
    /\ cycle' = [cycle EXCEPT !.pc = "done"]
    /\ UNCHANGED <<instrument, strategy_outputs, evaluations, cycle_others>>

CycleNext ==
    \/ EnterGenerateSignals
    \/ StrategyReturnsNothing
    \/ \E signal_type \in {"long_call", "long_put"} :
          \E c \in 1..2 : StrategyReturnsSignal(signal_type, c)
    \/ StrategyRaises
    \/ CombineBuckets

SpecCycle == CycleInit /\ [][CycleNext]_vars

(***************************************************************************)
(* TechnicalSignalGenerator.generate_signals of the generation service      *)
(***************************************************************************)

NumSymbols == 2

Symbols == 1..NumSymbols

\* The generate_*_signals calls made for a symbol, in order.
TechnicalSteps == <<"rsi", "macd", "bollinger">>

NotStarted == [lookup |-> "pending", rsi |-> "pending", macd |-> "pending",
               bollinger |-> "pending"]

\* Where generate_signals goes on after a generate_*_signals call: each call
\* catches its own exceptions, so the next call follows whatever the outcome.
StepAfter(step, outcome) ==
    IF step = "rsi" THEN "macd"
    ELSE IF step = "macd" THEN "bollinger"
    ELSE "lookup"

GeneratorInit ==
    /\ GeneratorOthersIdle
    /\ symbols \in [Symbols -> {"ready", "missing", "no_prices"}]
    /\ generator = [symbol |-> 1, step |-> "lookup"]
    /\ outcomes = [s \in Symbols |-> NotStarted]
    /\ technical_signals = <<>>

\* generator moved to the next symbol of the loop, or out of the loop.
NextSymbol ==
    IF generator.symbol = NumSymbols
    THEN [symbol |-> generator.symbol, step |-> "done"]
    ELSE [symbol |-> generator.symbol + 1, step |-> "lookup"]

\* The instrument and price queries of one iteration: a symbol without an
\* instrument row or without prices is skipped with a warning.
LookupInstrument ==
    /\ generator.step = "lookup"
    /\ IF symbols[generator.symbol] = "ready"
       THEN /\ generator' = [generator EXCEPT !.step = "rsi"]
            /\ outcomes' = [outcomes EXCEPT ![generator.symbol].lookup = "ready"]
       ELSE /\ generator' = NextSymbol
            /\ outcomes' = [outcomes EXCEPT ![generator.symbol].lookup = "skipped"]
    /\ UNCHANGED <<symbols, technical_signals, generator_others>>

\* A query of the iteration raises: the except of the loop body logs the error
\* and the loop goes on with the next symbol.
LookupRaises ==
    /\ generator.step = "lookup"
    /\ generator' = NextSymbol
    /\ outcomes' = [outcomes EXCEPT ![generator.symbol].lookup = "raised"]
    /\ UNCHANGED <<symbols, technical_signals, generator_others>>

\* generator after the generate_*_signals call it is at.
Advance(outcome) ==
    IF StepAfter(generator.step, outcome) = "lookup"
    THEN NextSymbol
    ELSE [generator EXCEPT !.step = StepAfter(generator.step, outcome)]

\* generate_*_signals finds no setup (or save_signal returns None) and returns.
GenerateReturns ==
    /\ generator.step \in {"rsi", "macd", "bollinger"}
    /\ outcomes' = [outcomes EXCEPT ![generator.symbol][generator.step] = "returned"]
    /\ generator' = Advance("returned")
    /\ UNCHANGED <<symbols, technical_signals, generator_others>>

\* generate_*_signals raises before it saves a signal; its own except logs it.
GenerateRaises ==
    /\ generator.step \in {"rsi", "macd", "bollinger"}
    /\ outcomes' = [outcomes EXCEPT ![generator.symbol][generator.step] = "raised"]
    /\ generator' = Advance("raised")
    /\ UNCHANGED <<symbols, technical_signals, generator_others>>

\* generate_*_signals finds a setup and saves its signal; the call
\* self.save_signal_factor({...}) that follows lacks the signal_id argument and
\* raises TypeError, which the except of generate_*_signals logs.
GenerateSavesSignal ==
    /\ generator.step \in {"rsi", "macd", "bollinger"}
    /\ technical_signals' = Append(technical_signals,
                                   [id |-> Len(technical_signals) + 1,
                                    instrument_id |-> generator.symbol,
                                    signal_source |-> "technical",
                                    status |-> "pending",
                                    indicator |-> generator.step])
    /\ outcomes' = [outcomes EXCEPT ![generator.symbol][generator.step] = "raised"]
    /\ generator' = Advance("raised")
    /\ UNCHANGED <<symbols, generator_others>>

GeneratorNext ==
    \/ LookupInstrument
    \/ LookupRaises
    \/ GenerateReturns
    \/ GenerateRaises
    \/ GenerateSavesSignal

SpecGenerator == GeneratorInit /\ [][GeneratorNext]_vars

(***************************************************************************)
(* create_signal, update_signal and delete_signal of the signals API        *)
(***************************************************************************)

MaxSignalRows == 2
MaxApiCalls == 3

ApiInit ==
    /\ ApiOthersIdle
    /\ db_signals = <<>>
    /\ last_update = NoUpdate
    /\ api_calls = 0

\* POST /: the row takes every field of the request body, status included
\* (PENDING when the body leaves it out).
CreateSignal(status, confidence_score) ==
    /\ api_calls < MaxApiCalls
    /\ Len(db_signals) < MaxSignalRows
    /\ db_signals' = Append(db_signals, [status |-> status,
                                         confidence_score |-> confidence_score,
                                         deleted |-> FALSE])
    /\ api_calls' = api_calls + 1
    /\ UNCHANGED <<last_update, api_others>>

\* PUT /{signal_id}: 404 for an unknown id, else every field the body sets is
\* assigned to the row.
UpdateSignal(signal_id, set_fields, status, confidence_score) ==
    /\ api_calls < MaxApiCalls
    /\ api_calls' = api_calls + 1
    /\ IF signal_id \in 1..Len(db_signals) /\ ~db_signals[signal_id].deleted
       THEN /\ db_signals' = [db_signals EXCEPT
                                 ![signal_id] = UpdatedRow(@, set_fields, status,
                                                           confidence_score)]
            /\ last_update' = [signal_id |-> signal_id,
                               from |-> db_signals[signal_id].status,
                               to |-> UpdatedRow(db_signals[signal_id], set_fields,
                                                 status, confidence_score).status]
       ELSE UNCHANGED <<db_signals, last_update>>
    /\ UNCHANGED api_others

\* DELETE /{signal_id}: 404 for an unknown id, else the row is deleted.
DeleteSignal(signal_id) ==
    /\ api_calls < MaxApiCalls
    /\ api_calls' = api_calls + 1
    /\ IF signal_id \in 1..Len(db_signals) /\ ~db_signals[signal_id].deleted
       THEN db_signals' = [db_signals EXCEPT ![signal_id].deleted = TRUE]
       ELSE UNCHANGED db_signals
    /\ UNCHANGED <<last_update, api_others>>

ApiNext ==
    \/ \E status \in SignalStatuses : \E confidence_score \in RequestConfidences :
          CreateSignal(status, confidence_score)
    \/ \E signal_id \in 1..(MaxSignalRows + 1) :
          \E set_fields \in SUBSET UpdateFields :
             \E status \in SignalStatuses : \E confidence_score \in RequestConfidences :
                UpdateSignal(signal_id, set_fields, status, confidence_score)
    \/ \E signal_id \in 1..(MaxSignalRows + 1) : DeleteSignal(signal_id)

SpecSignalApi == ApiInit /\ [][ApiNext]_vars

(***************************************************************************)
(* check_stop_loss_take_profit, called repeatedly on one stored position    *)
(***************************************************************************)

MaxChecks == 2

CheckInit ==
    /\ CheckOthersIdle
    /\ \E position_type \in CheckPositionTypes, current_price \in CheckCurrentPrices,
          stop_loss_price \in CheckStopLossPrices,
          take_profit_price \in CheckTakeProfitPrices,
          days_to_expiration \in CheckDaysToExpiration :
          checked_position = [id |-> 1, position_type |-> position_type,
                              status |-> "ACTIVE", quantity |-> 10,
                              entry_price |-> 700, current_price |-> current_price,
                              stop_loss_price |-> stop_loss_price,
                              take_profit_price |-> take_profit_price,
                              days_to_expiration |-> days_to_expiration]
    /\ position_before = checked_position
    /\ check_results = <<>>

\* check_stop_loss_take_profit(position_id)
CheckStopLossTakeProfit(position_id) ==
    /\ Len(check_results) < MaxChecks
    /\ LET result == CheckResult(position_id, checked_position)
       IN  /\ check_results' = Append(check_results,
                                      [position_id |-> position_id, result |-> result])
           /\ checked_position' = PositionAfterCheck(checked_position, result)
    /\ UNCHANGED <<position_before, check_others>>

CheckNext == \E position_id \in CheckedPositionIds : CheckStopLossTakeProfit(position_id)

SpecCheck == CheckInit /\ [][CheckNext]_vars

(***************************************************************************)
(* Ladder: properties                                                      *)
(***************************************************************************)

\* Cumulative release the ladder aims at once a threshold has been reached.
LadderTarget(profit_pct) ==
    CASE profit_pct = 20 -> 25
      [] profit_pct = 35 -> 50
      [] profit_pct = 50 -> 75
      [] OTHER -> 0

\* What the calls before call k have released for the position of call k.
ReleasedBefore(k) ==
    SumSeq([j \in 1..(k - 1) |->
              IF ladder_calls[j].position_id = ladder_calls[k].position_id
              THEN ladder_calls[j].percentage_to_close ELSE 0])

\* C1: after any sequence of implement_partial_profit_taking calls on a
\* position, the percentage_closed of its recorded events sums to at most 1.0.
C1_SumOfReleasesAtMostOne ==
    \A position_id \in RequestedPositionIds :
        SumSeq(PercentagesOf(HistoryOf(profit_taking, position_id))) <= 100

\* Witness of C1: the ladder is exhausted and a further call at an
\* already-triggered level has been answered.
C1_Witness ==
    /\ Len(ladder_calls) = MaxLadderCalls
    /\ SumSeq(PercentagesOf(HistoryOf(profit_taking, 1))) = 75
    /\ ladder_calls[Len(ladder_calls)].profit_percentage = 50
    /\ ladder_calls[Len(ladder_calls)].action = "hold"

NoThresholdReleasedTwice ==
    \A j, k \in 1..Len(ladder_calls) :
        ( /\ j < k
          /\ ladder_calls[j].action = "partial_close"
          /\ ladder_calls[k].action = "partial_close"
          /\ ladder_calls[j].position_id = ladder_calls[k].position_id )
        => ladder_calls[j].threshold_triggered # ladder_calls[k].threshold_triggered

ReleasesOnlyTheIncrement ==
    \A k \in 1..Len(ladder_calls) :
        ladder_calls[k].action = "partial_close"
        => /\ ladder_calls[k].threshold_triggered \in {20, 35, 50}
           /\ ladder_calls[k].profit_percentage >= ladder_calls[k].threshold_triggered
           /\ ladder_calls[k].percentage_to_close
                  = LadderTarget(ladder_calls[k].threshold_triggered) - ReleasedBefore(k)
           /\ ladder_calls[k].percentage_to_close > 0

HoldOnceTargetReached ==
    \A k \in 1..Len(ladder_calls) :
        ( /\ ladder_calls[k].position_id \in PositionIds
          /\ \A t \in {20, 35, 50} :
                 ladder_calls[k].profit_percentage >= t => ReleasedBefore(k) >= LadderTarget(t) )
        => /\ ladder_calls[k].action = "hold"
           /\ ladder_calls[k].percentage_to_close = 0

EventsAreThePartialCloses ==
    Len(profit_taking) =
        Cardinality({k \in 1..Len(ladder_calls) : ladder_calls[k].action = "partial_close"})

ScenarioDProfits ==
    /\ Len(ladder_calls) >= 3
    /\ \A k \in 1..3 : ladder_calls[k].position_id = 1
    /\ ladder_calls[1].profit_percentage = 22
    /\ ladder_calls[2].profit_percentage = 37
    /\ ladder_calls[3].profit_percentage = 22

\* C2: each threshold fires at most once per position, for the increment not
\* yet released; a call whose profit reaches no threshold with an unreleased
\* target holds and records no event; 22% -> 37% -> 22% releases 25%, 25%, 0.
C2_ThresholdFiresOnceForIncrement ==
    /\ NoThresholdReleasedTwice
    /\ ReleasesOnlyTheIncrement
    /\ HoldOnceTargetReached
    /\ EventsAreThePartialCloses
    /\ ScenarioDProfits =>
           /\ ladder_calls[1].percentage_to_close = 25
           /\ ladder_calls[2].percentage_to_close = 25
           /\ ladder_calls[2].total_percentage_closed = 50
           /\ ladder_calls[3].action = "hold"

\* Witness of C2: scenario D has run to its third call.
C2_Witness ==
    /\ ScenarioDProfits
    /\ Len(profit_taking) = 2
    /\ ladder_calls[3].action = "hold"

\* C7: of two concurrent calls on one position, at most one releases a given
\* threshold, under every interleaving of their reads and commits.
C7_ThresholdReleasedAtMostOnceConcurrently ==
    \A j, k \in 1..Len(ladder_calls) :
        ( /\ j < k
          /\ ladder_calls[j].position_id = ladder_calls[k].position_id
          /\ ladder_calls[j].profit_percentage = ladder_calls[k].profit_percentage
          /\ ladder_calls[j].action = "partial_close" )
        => ~ ( /\ ladder_calls[k].action = "partial_close"
               /\ ladder_calls[k].threshold_triggered = ladder_calls[j].threshold_triggered )

(***************************************************************************)
(* Sizers: properties                                                      *)
(***************************************************************************)

\* Minimum floor max($33,000, 33% of portfolio_value) of the loaded account.
MinimumFloor ==
    IF account.portfolio_value * 33 >= 33000 * 100
    THEN (account.portfolio_value * 33) \div 100
    ELSE 33000

\* Allocation headroom: max_stock_allocation% x portfolio_value - current allocation.
Headroom ==
    (account.portfolio_value * account.max_stock_allocation) \div 100 - SumSeq(positions)

\* The last sizing call found its user, portfolio and instrument.
SizingResolved == sizing.error \in {"", "Maximum allocation reached"}

\* C3: a floor-policy sizing call with headroom >= minimum floor returns
\* contracts x contract_value >= minimum floor, and so does every call that
\* returns a non-zero contract count.
C3_SizedPositionMeetsFloor ==
    /\ (SizingResolved /\ Headroom >= MinimumFloor)
           => /\ sizing.error = ""
              /\ sizing.contracts * sizing.contract_value >= MinimumFloor
    /\ sizing.contracts # 0
           => sizing.contracts * sizing.contract_value >= MinimumFloor

\* Witness of C3: headroom above the floor, and the correlation and
\* fundamental adjustments alone would have cut the position below it.
C3_Witness ==
    /\ SizingResolved
    /\ Headroom >= MinimumFloor
    /\ sizing.correlation_adjustment = 50
    /\ sizing.fundamental_adjustment * sizing.correlation_adjustment < 20000
    /\ sizing.contracts = sizing.min_contracts
    /\ sizing.contracts > 0

\* C4: a floor-policy sizing call with headroom below the minimum floor fails
\* with contracts = 0.
C4_BelowFloorHeadroomFails ==
    (SizingResolved /\ Headroom < MinimumFloor)
        => /\ sizing.error # ""
           /\ sizing.contracts = 0

\* C5: the final position value of a non-error floor-policy result does not
\* exceed the allocation headroom.
C5_FinalValueWithinHeadroom ==
    sizing.error = "" => sizing.contracts * sizing.contract_value <= Headroom

\* C6: under every interleaving of two sizing requests and the opening of the
\* positions they size, the allocation held in the instrument stays within
\* max_stock_allocation% x portfolio_value.
C6_ConcurrentSizingWithinLimit ==
    SumSeq(positions) * 100 <= account.portfolio_value * account.max_stock_allocation

(***************************************************************************)
(* Exit planner: properties                                                *)
(***************************************************************************)

\* C8: for a fixed position, an evaluation at a current price not below the
\* price of the evaluation before it returns an adjusted_stop_loss not below
\* the one returned before.
C8_StopNonDecreasingInPrice ==
    ( /\ prev_eval.evaluated
      /\ exit_eval.evaluated
      /\ exit_eval.current_price >= prev_eval.current_price )
    => exit_eval.adjusted_stop_loss >= prev_eval.adjusted_stop_loss

\* Witness of C8: the price rose from the 25% tier into the 50% tier and the
\* stop rose with it.
C8_Witness ==
    /\ prev_eval.evaluated
    /\ prev_eval.current_profit_pct = 30
    /\ exit_eval.current_profit_pct = 31
    /\ exit_eval.adjusted_stop_loss > prev_eval.adjusted_stop_loss
    /\ prev_eval.adjusted_stop_loss > prev_eval.initial_stop_loss

\* C9: over the life of a position the stop an evaluation reports is at least
\* the highest stop any earlier evaluation reported, also after a retracement.
C9_StopNeverDecreasesOverLife ==
    exit_eval.evaluated => exit_eval.adjusted_stop_loss >= highest_stop

(***************************************************************************)
(* Ensemble aggregators: properties                                        *)
(***************************************************************************)

\* The strategies whose signal of the cycle has the type of a combined signal.
ContributorsOf(sig) ==
    {i \in StrategyIndexes :
        /\ strategy_outputs[i] # <<>>
        /\ strategy_outputs[i][1].signal_type = sig.signal_type}

ContributionOf(i) == strategy_outputs[i][1].confidence_score

Emitting == {i \in StrategyIndexes : strategy_outputs[i] # <<>>}

StoredEnsembleSignals ==
    {n \in 1..Len(signals) : signals[n].signal_source = "ensemble"}

\* C11: under both aggregators a combined signal of a direction is stored only
\* when at least two strategies (min_strategies) contributed a candidate of that
\* direction to the cycle.
C11_NoCombinedSignalBelowQuorum ==
    \A n \in StoredEnsembleSignals :
        /\ Cardinality(ContributorsOf(signals[n])) >= 2
        /\ Len(signals[n].strategies) >= 2

\* Witness of C11: one strategy alone returned a LONG_CALL at 0.9 for an
\* instrument with a price and contracts, an aggregator ran, and no combined
\* signal was stored.
C11_Witness ==
    /\ ensemble_returned.aggregator # "none"
    /\ instrument = [last_price |-> 100, atm_call |-> TRUE, atm_put |-> TRUE]
    /\ Emitting = {5}
    /\ strategy_outputs[5][1].signal_type = "long_call"
    /\ strategy_outputs[5][1].confidence_score = 90
    /\ StoredEnsembleSignals = {}
    /\ ensemble_returned.all_signals = <<>>

\* The sum of the confidences of the candidates of the direction of sig.
ContributionSum(sig) ==
    SumSeq([i \in 1..Len(Strategies) |->
               IF i \in ContributorsOf(sig) THEN ContributionOf(i) ELSE 0])

\* Scenario B: macd and rsi alone returned LONG_CALL candidates at 0.7 and 0.8
\* for an instrument with a price and an at-the-money call.
ScenarioB ==
    /\ instrument.last_price # 0
    /\ instrument.atm_call
    /\ Emitting = {1, 2}
    /\ strategy_outputs[1][1].signal_type = "long_call"
    /\ strategy_outputs[1][1].confidence_score = 80
    /\ strategy_outputs[2][1].signal_type = "long_call"
    /\ strategy_outputs[2][1].confidence_score = 70

\* C12: the confidence of every combined signal of the simple-average
\* aggregator is the arithmetic mean of the confidences of the candidates of
\* its bucket and is at least 0.6, and in scenario B the aggregator returns
\* exactly one combined LONG_CALL signal, of confidence 0.75.
C12_SimpleAverageIsMeanAboveThreshold ==
    ensemble_returned.aggregator = "simple" =>
        /\ \A n \in 1..Len(ensemble_returned.all_signals) :
              LET sig == ensemble_returned.all_signals[n]
              IN  /\ sig.confidence_score.den > 0
                  /\ sig.confidence_score.num * Cardinality(ContributorsOf(sig))
                        = ContributionSum(sig) * sig.confidence_score.den
                  /\ sig.confidence_score.num >= 60 * sig.confidence_score.den
        /\ ScenarioB =>
              /\ Len(ensemble_returned.all_signals) = 1
              /\ ensemble_returned.all_signals[1].signal_type = "long_call"
              /\ ensemble_returned.all_signals[1].signal_source = "ensemble"
              /\ ensemble_returned.all_signals[1].confidence_score.num * 100
                    = 75 * 100 * ensemble_returned.all_signals[1].confidence_score.den
              /\ Cardinality(StoredEnsembleSignals) = 1

\* Witness of C12: the simple-average aggregator ran on scenario B and returned
\* a combined signal.
C12_Witness ==
    /\ ensemble_returned.aggregator = "simple"
    /\ ScenarioB
    /\ Len(ensemble_returned.all_signals) = 1

C17_StrategyEvaluationStoresNothing ==
    /\ \A n \in 1..Len(signals) : signals[n].signal_source = "ensemble"
    /\ \A k \in 1..Len(signal_factors) :
          \E n \in StoredEnsembleSignals : signals[n].id = signal_factors[k].signal_id

\* C19: a call of generate_signals buckets and decides only after every
\* registered strategy has been evaluated (has returned or raised): once it has
\* returned for an instrument with a price, or stored a combined signal, no
\* evaluation is pending, and a combined signal counts every candidate of its
\* direction.
C19_AggregationAfterAllEvaluations ==
    /\ (cycle.pc = "done" /\ instrument.last_price # 0) =>
          \A i \in StrategyIndexes : evaluations[i] # "pending"
    /\ \A n \in StoredEnsembleSignals :
          /\ \A i \in StrategyIndexes : evaluations[i] # "pending"
          /\ Len(signals[n].strategies) = Cardinality(ContributorsOf(signals[n]))

\* Witness of C19: a call in which one strategy raised has combined the
\* candidates of two others into a stored signal.
C19_Witness ==
    /\ cycle.pc = "done"
    /\ Raised # {}
    /\ Cardinality(Collected) = 2
    /\ StoredEnsembleSignals # {}

\* The symbols whose iteration of the generator loop has ended.
Processed == {s \in Symbols : s < generator.symbol \/ generator.step = "done"}

\* When a generate_*_signals call raised for a symbol, the other calls for
\* that symbol were still made.
OtherStrategiesStillEvaluated ==
    \A s \in Processed :
        outcomes[s].lookup = "ready" =>
            \A k \in 1..Len(TechnicalSteps) : outcomes[s][TechnicalSteps[k]] # "pending"

\* Whatever raised for a symbol, every other symbol was still processed.
OtherInstrumentsStillProcessed ==
    generator.step = "done" =>
        \A s \in Symbols :
            /\ outcomes[s].lookup # "pending"
            /\ symbols[s] = "ready" /\ outcomes[s].lookup # "raised" =>
                  outcomes[s].lookup = "ready"

\* A generate_*_signals call that raised left no signal of its own.
RaisingStrategyContributesNothing ==
    \A s \in Symbols : \A k \in 1..Len(TechnicalSteps) :
        outcomes[s][TechnicalSteps[k]] = "raised" =>
            \A n \in 1..Len(technical_signals) :
                ~ (/\ technical_signals[n].instrument_id = s
                   /\ technical_signals[n].indicator = TechnicalSteps[k])

\* C18: failures are isolated per strategy and per instrument: when the
\* evaluation of one strategy raises for an instrument the other strategies
\* are still evaluated for it, every other instrument is still processed in
\* the cycle, and the raising strategy contributes no candidate.
C18_FailuresIsolated ==
    /\ OtherStrategiesStillEvaluated
    /\ OtherInstrumentsStillProcessed
    /\ RaisingStrategyContributesNothing

\* C14: EXECUTED, EXPIRED and CANCELLED are terminal: no update changes the
\* status of a signal that has reached one of them, so an EXECUTED signal is
\* never cancelled.
C14_TerminalStatusesNeverLeft ==
    last_update.from \in {"executed", "expired", "cancelled"} =>
        last_update.to = last_update.from

\* C15: every stored signal has a confidence_score within [0, 1], also after
\* any create or update of a signal.
C15_StoredConfidenceWithinUnitInterval ==
    \A n \in 1..Len(db_signals) :
        ~db_signals[n].deleted =>
            /\ db_signals[n].confidence_score >= 0
            /\ db_signals[n].confidence_score <= 100

ScenarioA ==
    /\ sizing.error = ""
    /\ sizing.signal_confidence = 85
    /\ account.portfolio_value = 100000
    /\ sizing.contract_value = 250

\* C20: the floor-policy sizer reports the minimum floor max(33000, 0.33 x
\* portfolio value), min_contracts the ceiling of the floor over the contract
\* value, the tier multiplier 2.0 / 1.5 / 1.25 / 1.0 for confidence >= 0.9 /
\* >= 0.8 / >= 0.7 / below, and a scaled count of at most min_contracts times
\* the multiplier; in scenario A these are $33,000, 132, x1.5 and at most 198.
C20_FloorTierScaling ==
    sizing.error = "" =>
        /\ sizing.min_position_size * 100
              = Max(33000 * 100, 33 * account.portfolio_value)
        /\ sizing.min_contracts * sizing.contract_value >= sizing.min_position_size
        /\ (sizing.min_contracts - 1) * sizing.contract_value < sizing.min_position_size
        /\ sizing.signal_confidence >= 90 => sizing.max_scaling = 200
        /\ sizing.signal_confidence >= 80 /\ sizing.signal_confidence < 90 =>
              sizing.max_scaling = 150
        /\ sizing.signal_confidence >= 70 /\ sizing.signal_confidence < 80 =>
              sizing.max_scaling = 125
        /\ sizing.signal_confidence < 70 => sizing.max_scaling = 100
        /\ sizing.max_contracts * 100 <= sizing.min_contracts * sizing.max_scaling
        /\ ScenarioA =>
              /\ sizing.min_position_size = 33000
              /\ sizing.min_contracts = 132
              /\ sizing.max_scaling = 150
              /\ sizing.max_contracts <= 198

\* Witness of C20: scenario A has been sized.
C20_Witness ==
    /\ ScenarioA
    /\ sizing.min_contracts = 132
    /\ sizing.contracts >= 132

\* C21: the ladder fires at the thresholds de-rated by days to expiration: a
\* call on a position with nothing released holds only when the reported
\* profit is below the first base level times the factor of the position's
\* days to expiration (at 1 DTE a profit of 8% releases the first 25%), and a
\* release names a de-rated level the profit has reached.
C21_LadderFiresAtDeratedThresholds ==
    \A k \in 1..Len(ladder_calls) :
        LET r == ladder_calls[k]
        IN  /\ (r.action = "hold" /\ r.total_percentage_closed = 0) =>
                  r.profit_percentage * 100
                     < AdjustedThresholds(ladder_days_to_expiration)[1].profit_pct
            /\ r.action = "partial_close" =>
                  \E i \in 1..Len(thresholds) :
                     /\ r.threshold_triggered * 100
                           = AdjustedThresholds(ladder_days_to_expiration)[i].profit_pct
                     /\ r.profit_percentage * 100
                           >= AdjustedThresholds(ladder_days_to_expiration)[i].profit_pct

\* C22: calculate_dynamic_take_profit picks the risk-reward ratio 1.5 below 15%
\* profit, 2.0 from 15% up to but excluding 30%, and 3.0 from 30%; the
\* take-profit price is the entry price plus |entry - initial stop-loss| times
\* the ratio; so of two successive evaluations of a position the one at the
\* higher profit never has the lower take-profit price.
C22_TakeProfitRetiered ==
    exit_eval.evaluated =>
        /\ exit_eval.risk_reward_ratio
              = (IF exit_eval.current_profit_pct < 15 THEN 15
                 ELSE IF exit_eval.current_profit_pct < 30 THEN 20 ELSE 30)
        /\ exit_eval.take_profit_price * 10
              = exit_eval.entry_price * 10
                  + Abs(exit_eval.entry_price - exit_eval.initial_stop_loss)
                      * exit_eval.risk_reward_ratio
        /\ (prev_eval.evaluated
              /\ prev_eval.current_profit_pct <= exit_eval.current_profit_pct) =>
                 prev_eval.take_profit_price <= exit_eval.take_profit_price

\* An evaluation on the 15% edge followed by one on the 30% edge, the
\* take-profit price rising with the ratio.
C22_Witness ==
    /\ prev_eval.evaluated
    /\ exit_eval.evaluated
    /\ prev_eval.current_profit_pct = 15
    /\ prev_eval.risk_reward_ratio = 20
    /\ exit_eval.current_profit_pct = 30
    /\ exit_eval.risk_reward_ratio = 30
    /\ prev_eval.take_profit_price < exit_eval.take_profit_price

C24_FundamentalAdjustmentWithinRange ==
    sizing.error = "" =>
        /\ sizing.fundamental_adjustment >= 200
        /\ sizing.fundamental_adjustment <= 400

\* C25: EarningsStrategy emits a trend-based pre-earnings candidate only when
\* the scheduled earnings date is 3 to 14 days ahead (inclusive), and a
\* candidate based on the most recent surprise only when earnings were 0 to 2
\* days ago; outside these two windows it emits nothing.
C25_EarningsWindows ==
    \A k \in 1..Len(earnings_signals) :
        /\ earnings_signals[k].basis = "trend" =>
              /\ earnings_input.days_until_earnings >= 3
              /\ earnings_input.days_until_earnings <= 14
        /\ earnings_signals[k].basis = "surprise" =>
              /\ earnings_input.days_until_earnings <= 0
              /\ earnings_input.days_until_earnings >= -2

\* C26: over any sequence of price ticks the MACD strategy emits a candidate
\* at a tick only if the MACD line was strictly below the signal line at the
\* previous tick and is strictly above it now (LONG_CALL), or strictly above
\* and now strictly below (LONG_PUT); where the relationship is unchanged, or
\* equal on either tick, it emits nothing; every candidate has confidence 0.7.
C26_MacdEmitsOnlyOnStrictCrossover ==
    \A k \in 1..Len(macd_returned) :
        /\ \A n \in 1..Len(macd_returned[k]) :
              LET c == macd_returned[k][n]
              IN  /\ k > 1
                  /\ c.confidence_score = 70
                  /\ \/ /\ c.signal_type = "LONG_CALL"
                        /\ macd_ticks[k - 1] < 0
                        /\ macd_ticks[k] > 0
                     \/ /\ c.signal_type = "LONG_PUT"
                        /\ macd_ticks[k - 1] > 0
                        /\ macd_ticks[k] < 0
        /\ (k > 1 /\ (macd_ticks[k - 1] = 0 \/ macd_ticks[k] = 0
                        \/ macd_ticks[k - 1] * macd_ticks[k] > 0)) =>
              macd_returned[k] = <<>>

\* Below, above (a bullish candidate), still above (nothing), below (a
\* bearish candidate).
C26_Witness ==
    /\ Len(macd_returned) = 4
    /\ macd_ticks[1] < 0 /\ macd_ticks[2] > 0 /\ macd_ticks[3] > 0 /\ macd_ticks[4] < 0
    /\ Len(macd_returned[2]) = 1 /\ macd_returned[2][1].signal_type = "LONG_CALL"
    /\ macd_returned[3] = <<>>
    /\ Len(macd_returned[4]) = 1 /\ macd_returned[4][1].signal_type = "LONG_PUT"

\* C27: a computation whose denominator can be zero resolves to an explicit
\* neutral outcome and never returns NaN or Infinity: in particular the
\* profit factor of a summary is a finite number or a neutral value when the
\* gross loss is zero.
C27_ZeroDenominatorsResolveNeutral ==
    summary.evaluated =>
        /\ summary.win_rate.kind \in {"finite", "zero"}
        /\ summary.profit_factor.kind \in {"finite", "zero"}
        /\ summary.average_profit.kind \in {"finite", "zero"}
        /\ summary.average_loss.kind \in {"finite", "zero"}

\* C28: each implement_partial_profit_taking call records at most one release
\* event, always of exactly 25%, for the lowest threshold not yet released (so
\* a position jumping straight to 50% needs three successive calls to release
\* 75%), and after any sequence of calls the cumulative release of a position
\* is one of 0, 0.25, 0.5, 0.75.
C28_OneQuarterPerCall ==
    /\ Len(profit_taking)
          = Cardinality({k \in 1..Len(ladder_calls) :
                            ladder_calls[k].action = "partial_close"})
    /\ \A n \in 1..Len(profit_taking) : profit_taking[n].percentage_closed = 25
    /\ \A k \in 1..Len(ladder_calls) :
          ladder_calls[k].action = "partial_close" =>
              /\ ladder_calls[k].percentage_to_close = 25
              /\ LadderTarget(ladder_calls[k].threshold_triggered)
                    = ReleasedBefore(k) + 25
    /\ \A position_id \in RequestedPositionIds :
          SumSeq(PercentagesOf(HistoryOf(profit_taking, position_id))) \in {0, 25, 50, 75}

\* The first three calls all report 50% profit and release the 20%, the 35%
\* and the 50% level in turn; the fourth holds.
C28_Witness ==
    /\ Len(ladder_calls) >= 4
    /\ \A k \in 1..4 : /\ ladder_calls[k].position_id = 1
                       /\ ladder_calls[k].profit_percentage = 50
    /\ ladder_calls[1].threshold_triggered = 20
    /\ ladder_calls[2].threshold_triggered = 35
    /\ ladder_calls[3].threshold_triggered = 50
    /\ ladder_calls[3].total_percentage_closed = 75
    /\ ladder_calls[4].action = "hold"

\* C29: in both aggregators, when the bullish bucket passes but no ATM call
\* is found, the call returns an empty result and the bearish bucket is not
\* evaluated, even if it passes and an ATM put exists; the reverse does not
\* hold: a missing ATM put leaves the bullish signal already emitted in the
\* result.
C29_MissingCallEndsTheCycle ==
    (ensemble_returned.aggregator # "none" /\ instrument.last_price # 0) =>
        LET calls == Bucket(strategy_outputs, "long_call", 1)
            puts  == Bucket(strategy_outputs, "long_put", 1)
        IN  /\ (BucketPasses(ensemble_returned.aggregator, calls)
                  /\ ~instrument.atm_call) =>
                   /\ ensemble_returned.all_signals = <<>>
                   /\ \A n \in 1..Len(signals) : signals[n].signal_source # "ensemble"
            /\ (BucketPasses(ensemble_returned.aggregator, calls)
                  /\ instrument.atm_call
                  /\ BucketPasses(ensemble_returned.aggregator, puts)
                  /\ ~instrument.atm_put) =>
                   /\ Len(ensemble_returned.all_signals) = 1
                   /\ ensemble_returned.all_signals[1].signal_type = "long_call"

\* Both buckets pass, the chain has an ATM put but no ATM call, and the call
\* has returned nothing.
C29_Witness ==
    /\ ensemble_returned.aggregator # "none"
    /\ instrument.last_price # 0
    /\ ~instrument.atm_call
    /\ instrument.atm_put
    /\ BucketPasses(ensemble_returned.aggregator, Bucket(strategy_outputs, "long_call", 1))
    /\ BucketPasses(ensemble_returned.aggregator, Bucket(strategy_outputs, "long_put", 1))
    /\ ensemble_returned.all_signals = <<>>

\* The reverse case: both buckets pass, the ATM put is missing and the
\* bullish signal is returned.
MissingPutKeepsBullishSignal ==
    /\ ensemble_returned.aggregator # "none"
    /\ instrument.atm_call
    /\ ~instrument.atm_put
    /\ BucketPasses(ensemble_returned.aggregator, Bucket(strategy_outputs, "long_call", 1))
    /\ BucketPasses(ensemble_returned.aggregator, Bucket(strategy_outputs, "long_put", 1))
    /\ Len(ensemble_returned.all_signals) = 1

\* C30: no aggregator counts a signal whose source is ENSEMBLE among its
\* contributing candidates: across generation cycles, the component signals
\* of a combined signal never include a combined signal of an earlier cycle.
C30_EnsembleNeverFeedsEnsemble ==
    \A n \in 1..Len(recent_signals) :
        recent_signals[n].signal_source = "ensemble" =>
            \A c \in recent_signals[n].component_signals :
                recent_signals[c].signal_source # "ensemble"

====
